---------------------------- MODULE Spec2Model ----------------------------
(***************************************************************************)
(* Extraction core of the Terabox extractor: TokenManager (session state,  *)
(* asyncio lock, bootstrap), TeraboxAPIClient (connection pool, mirror     *)
(* cursor, _request with its tenacity retry) and the callers of the        *)
(* client.  Every asyncio task is a process; an action runs a task from    *)
(* one suspension point (an await that really waits: an HTTP exchange, the *)
(* lock, the retry sleep) to the next.                                     *)
(***************************************************************************)
EXTENDS Integers, Sequences, FiniteSets, TLC

\* ----------------------------------------------------------------- bounds
MaxTime == 4           \* the clock stops here
MaxSessions == 2       \* SessionData objects ever constructed
MaxFiles == 3          \* entries of a file list handed to file selection

\* ------------------------------------------------------ program constants
\* refresh_interval (3600 s) and the bootstrap GET's ClientTimeout(total=30),
\* scaled to clock ticks; the GET's timeout stays below the interval.
RefreshInterval == 2
BootstrapTimeout == 1
MaxAttempts == 3       \* stop_after_attempt(3)

BASE_DOMAINS ==
  <<"www.terabox.com", "terabox.com", "www.teraboxapp.com", "www.1024tera.com">>

SessionErrnos == {-6, -9, 2}
CaptchaErrno == 112
\* errno values the Host answers with (0: success; -6: one of SessionErrnos;
\* 4: one that gets no reaction)
Errnos == {0, -6, 112, 4}
\* TeraboxAPIError's default errno, carried by "HTTP <status>" errors
DefaultErrno == -1

\* the concurrent tasks that use the one extractor
Procs == {1, 2}
SessIds == 1..MaxSessions

\* cookies fabricated by initialize_session, and those a response may set
FabricatedCookies == {"lang", "ndus", "browserid", "__bid_n"}
BootCookieSets == {{}, {"csrfToken"}}
RespCookieSets == {{}, {"sid"}}

VARIABLES
  now,            \* time.time(), in ticks
  session_data,   \* TokenManager._session_data: a SessIds element, 0 for None
  sess,           \* the SessionData objects constructed so far, by identity
  nsess,          \* how many were constructed
  lock,           \* TokenManager._lock: its holder, 0 when free
  http_session,   \* TeraboxAPIClient._http_session: "None", "open", "closed"
  domain_idx,     \* TeraboxAPIClient._current_domain_idx (0-based)
  pc,             \* where each task is suspended
  attempt,        \* requests the running get/post has sent: tenacity's attempt number
  pending,        \* errno _request raises once initialize_session returns; 0 in _ensure_session
  building,       \* the local session_data of a running initialize_session
  snap,           \* the local session_data of _request (line 112)
  reqHost,        \* mirror index the in-flight request is addressed to
  result,         \* outcome of the task's last finished API call
  input,          \* the url of the task's running or last extract
  stage,          \* TeraboxExtractor.extract: the call it is waiting for, "none" outside extract
  share,          \* its share_data
  file,           \* its target_file
  stype,          \* index in stream_types of the type _fetch_streaming_url is at
  refHost,        \* current_domain as extract read it for the call's URL or Referer
  out,            \* what the task's last extract returned or raised
  log,            \* the requests the task's last extract started, and the URL each yielded
  select,         \* a file list handed to lines 114-120 of extract, and what they gave
  host,           \* what the Host holds of the share, when that does not change
  earlier,        \* the identifiers of the first MediaInfo returned for that share
  norm,           \* a URL handed to normalize_url, and what one and two applications gave
  reading,        \* a /share/streaming response handed to lines 447-458, and what they gave
  headers         \* the user_agent of the installed state, and the headers each verb sent

\* the extractor's variables, and those of a task inside extract
clientVars == <<now, session_data, sess, nsess, lock, http_session, domain_idx,
                pc, attempt, pending, building, snap, reqHost, result>>
extractVars == <<input, stage, share, file, stype, refHost, out, log>>
pipeVars == <<extractVars, select, host, earlier, norm, reading, headers>>
vars == <<clientVars, pipeVars>>

\* landing is how the landing-page GET of the bootstrap ended, as logged at
\* line 156 ("ok") or line 162 ("failed"); "" before it ended
NoSession ==
  [created |-> 0, expires |-> 0, logid |-> 0, cookies |-> {},
   js_token |-> FALSE, bdstoken |-> FALSE, csrf_token |-> FALSE,
   user_agent |-> "", landing |-> ""]

\* an API call's outcome: kind is "none" (no call finished since the last
\* request was sent), "ok", "HostError" (TeraboxAPIError, with its errno) or
\* "RetryError" (tenacity gave up); logid and created are those of the
\* SessionData the failed request was built from
NoBody == [t |-> "none"]
NoResult ==
  [kind |-> "none", errno |-> 0, logid |-> 0, created |-> 0, body |-> NoBody,
   cookies |-> {}]

\* a FileEntry is a dict; a name or a MIME type is the sequence of its
\* pieces (<<"a", ".mp4">>), a dlink that of the URL's.  NoFile is None.
NoFile == [none |-> TRUE]
\* str() of the JSON number an fs_id is
DecimalDigits == <<"1", "2", "3", "4", "5", "6", "7", "8", "9">>
str(n) == DecimalDigits[n]
\* dict.get(k, default)
Get(d, k, default) == IF k \in DOMAIN d THEN d[k] ELSE default
\* share_data: which of the keys it has with a non-empty value, and its
\* file_list (or list), "absent" when it has neither key
NoList == [present |-> FALSE, list |-> <<>>]
\* None, and the empty string that "if not surl" treats alike
NoSurl == <<>>
NoSelect == [file_list |-> <<>>, target_file |-> NoFile, error |-> "", done |-> FALSE]
\* no MediaInfo yet
NoIds == [fs_id |-> "", share_id |-> "", uk |-> "", surl |-> <<>>, set |-> FALSE]
NoInput == <<>>
NoShare ==
  [shareid |-> FALSE, uk |-> FALSE, sign |-> FALSE, timestamp |-> FALSE,
   files |-> NoList]
NoUrl == <<>>
\* no response handed to lines 447-458 of _fetch_streaming_url
NoReading == [body |-> [t |-> "none"], type |-> 0, ret |-> FALSE, url |-> <<>>, done |-> FALSE]
\* no URL handed to normalize_url
NoNorm == [url |-> <<>>, surl |-> <<>>, once |-> <<>>, twice |-> <<>>, step |-> 0]
\* no request sent
EmptyHeaders == [ua |-> "", accept |-> "", requested_with |-> ""]
\* no state installed, no request sent by any verb
Verbs == {"bootstrap", "get", "post", "fetch_page", "head"}
NoHeaders == [installed |-> "", sent |-> [v \in Verbs |-> EmptyHeaders]]
\* no Host whose answers are known to stay the same
NoHost == [stable |-> FALSE, info |-> NoBody, page |-> NoShare, list |-> NoList]
NoOut ==
  [kind |-> "none", error |-> "", stream_url |-> NoUrl, download_url |-> NoUrl,
   dlink |-> NoUrl, fs_id |-> "", title |-> <<>>, filename |-> <<>>, size |-> 0,
   thumbnail |-> NoUrl, share_id |-> "", uk |-> "", surl |-> <<>>,
   raw_data |-> [k \in {} |-> ""]]

\* SessionData.is_expired
is_expired(s) == IF s.expires # 0 THEN now > s.expires ELSE TRUE

\* a test that also refreshes a state whose landing-page GET failed
RefreshAfterFailedLanding ==
  \/ session_data = 0
  \/ is_expired(sess[session_data])
  \/ sess[session_data].landing = "failed"

\* the test of refresh_if_needed, and (negated) of initialize_session's re-check
\* a refresh whatever the installed state
AlwaysRefresh == TRUE

NeedsRefresh == session_data = 0 \/ is_expired(sess[session_data])

\* a rotation that is applied twice
RotateTwice(i) == (i + 2) % Len(BASE_DOMAINS)

\* TeraboxAPIClient._rotate_domain
\* a cursor that stays where it is
StayOnDomain(i) == i

_rotate_domain(i) == (i + 1) % Len(BASE_DOMAINS)

\* TeraboxAPIClient.current_domain
current_domain(i) == BASE_DOMAINS[i + 1]

InFlight == {"inflight", "inflight_dead"}
Bootstrapping == {"boot_get", "boot_dead"}

InitExtractor ==
  /\ now = 1
  /\ session_data = 0
  /\ sess = [i \in SessIds |-> NoSession]
  /\ nsess = 0
  /\ lock = 0
  /\ http_session = "None"
  /\ domain_idx = 0
  /\ pc = [p \in Procs |-> "idle"]
  /\ attempt = [p \in Procs |-> 0]
  /\ pending = [p \in Procs |-> 0]
  /\ building = [p \in Procs |-> 0]
  /\ snap = [p \in Procs |-> 0]
  /\ reqHost = [p \in Procs |-> 0]
  /\ result = [p \in Procs |-> NoResult]
  /\ input = [p \in Procs |-> NoInput]
  /\ stage = [p \in Procs |-> "none"]
  /\ share = [p \in Procs |-> NoShare]
  /\ file = [p \in Procs |-> NoFile]
  /\ stype = [p \in Procs |-> 0]
  /\ refHost = [p \in Procs |-> 0]
  /\ out = [p \in Procs |-> NoOut]
  /\ log = [p \in Procs |-> <<>>]

Init ==
  /\ InitExtractor
  /\ select = NoSelect
  /\ host = NoHost
  /\ earlier = NoIds
  /\ headers = NoHeaders
  /\ norm = NoNorm
  /\ reading = NoReading

\* --------------------------------------------------------- TokenManager

\* how the landing-page GET can end: an exception (connection failure,
\* timeout, closed pool), or a page that sets the cookies r.cookies and has
\* (r.tokens) or has not a jsToken and a bdstoken in its HTML; of the pages,
\* a bare one and one with everything
LandingFailed == [ok |-> FALSE, cookies |-> {}, tokens |-> FALSE]
LandingResults ==
  {LandingFailed} \cup
  {[ok |-> TRUE, cookies |-> c, tokens |-> (c # {})] : c \in BootCookieSets}

\* TokenManager.get_user_agent: the string of one call (the fallback of line
\* 69), and the strings self._ua.chrome picks from, a fresh pick at each call
UserAgent == "Mozilla/5.0"
UserAgents == {UserAgent, "Chrome/122", "Chrome/121", "Chrome/120"}

\* the headers a call of get_default_headers can return: User-Agent is what
\* its own call of get_user_agent picked (lines 73-75)
get_default_headers ==
  [ua : UserAgents, accept : {"text/html"}, requested_with : {""}]

\* the headers a call of get_api_headers can return while the installed
\* state's user_agent is s, "" when no state is installed (line 94)
get_api_headers(s) ==
  [ua : IF s # "" THEN {s} ELSE UserAgents, accept : {"application/json"},
   requested_with : {"XMLHttpRequest"}]

\* the SessionData constructed at lines 122-135: fresh logid, fabricated cookies
NewSession(id) ==
  [created |-> now, expires |-> now + RefreshInterval, logid |-> id,
   cookies |-> FabricatedCookies,
   js_token |-> FALSE, bdstoken |-> FALSE, csrf_token |-> FALSE,
   user_agent |-> UserAgent, landing |-> ""]

\* a bootstrap whose failed GET leaves a state without cookies
LandedOrCleared(s, r) ==
  IF r.ok
  THEN [s EXCEPT !.cookies = @ \cup r.cookies,
                 !.js_token = r.tokens,
                 !.bdstoken = r.tokens,
                 !.csrf_token = ("csrfToken" \in r.cookies),
                 !.landing = "ok"]
  ELSE [s EXCEPT !.cookies = {}, !.landing = "failed"]

\* lines 139-162: the SessionData s once the landing-page GET ended as r
Landed(s, r) ==
  IF r.ok
  THEN [s EXCEPT !.cookies = @ \cup r.cookies,
                 !.js_token = r.tokens,
                 !.bdstoken = r.tokens,
                 !.csrf_token = ("csrfToken" \in r.cookies),
                 !.landing = "ok"]
  ELSE [s EXCEPT !.landing = "failed"]

\* the heap after a step: s, without the SessionData objects that nothing
\* refers to any more (TokenManager._session_data, a local of a suspended
\* _request or initialize_session)
StoreSessions(s) ==
  sess' = [i \in SessIds |->
             IF \/ i = session_data'
                \/ \E p \in Procs : snap'[p] = i \/ building'[p] = i
             THEN s[i] ELSE NoSession]

\* lines 96-132 of _request, run without suspension once _ensure_session is
\* back: the URL from current_domain, headers and cookies from the installed
\* state, session_data = get_session_data(), then session.request(...)
SendRequest(p) ==
  /\ pc' = [pc EXCEPT ![p] = "inflight"]
  /\ snap' = [snap EXCEPT ![p] = session_data']
  /\ reqHost' = [reqHost EXCEPT ![p] = domain_idx]
  /\ result' = [result EXCEPT ![p] = NoResult]
  /\ pending' = [pending EXCEPT ![p] = 0]
  /\ attempt' = [attempt EXCEPT ![p] = attempt[p] + 1]

\* lines 202-207 of fetch_page, once _ensure_session is back: session.get of
\* the URL the caller built
SendPage(p) ==
  /\ pc' = [pc EXCEPT ![p] = "page_inflight"]
  /\ reqHost' = [reqHost EXCEPT ![p] = refHost'[p]]
  /\ result' = [result EXCEPT ![p] = NoResult]
  /\ pending' = [pending EXCEPT ![p] = 0]
  /\ UNCHANGED <<snap, attempt>>

\* raise TeraboxAPIError(msg, errno): not retried by tenacity, the call ends
RaiseApiError(p, e) ==
  /\ pc' = [pc EXCEPT ![p] = "idle"]
  /\ result' = [result EXCEPT ![p] =
                  [kind |-> "HostError", errno |-> e,
                   logid |-> sess[snap[p]].logid,
                   created |-> sess[snap[p]].created, body |-> NoBody]]
  /\ pending' = [pending EXCEPT ![p] = 0]
  /\ snap' = [snap EXCEPT ![p] = 0]
  /\ reqHost' = [reqHost EXCEPT ![p] = 0]
  /\ attempt' = [attempt EXCEPT ![p] = 0]

\* what follows the return of initialize_session: the request of
\* _ensure_session's caller (e = 0), or the raise of line 164 (e # 0).
\* h is the pool's state when it returns.
AfterInitialize(p, e, h) ==
  IF e = 0
  THEN /\ http_session' = "open"
       /\ IF stage'[p] = "sharepage" THEN SendPage(p) ELSE SendRequest(p)
  ELSE http_session' = h /\ RaiseApiError(p, e)

\* a bootstrap that installs the new SessionData as soon as it is constructed
InitializeInstallingEarly(p, s, e, h) ==
  IF ~NeedsRefresh
  THEN /\ lock' = 0
       /\ UNCHANGED <<session_data, nsess, building>>
       /\ AfterInitialize(p, e, h)
       /\ StoreSessions(s)
  ELSE /\ nsess < MaxSessions
       /\ nsess' = nsess + 1
       /\ building' = [building EXCEPT ![p] = nsess + 1]
       /\ session_data' = nsess + 1
       /\ lock' = p
       /\ pc' = [pc EXCEPT ![p] = IF h = "open" THEN "boot_get" ELSE "boot_dead"]
       /\ pending' = [pending EXCEPT ![p] = e]
       /\ http_session' = h
       /\ UNCHANGED <<snap, reqHost, result, attempt>>
       /\ StoreSessions([s EXCEPT ![nsess + 1] = NewSession(nsess + 1)])

\* initialize_session with the lock held, up to the landing-page GET:
\* the re-check of line 117, else a new SessionData and the GET on http_client
\* (a closed http_client fails the GET). s is sess as the caller left it.
InitializeLocked(p, s, e, h) ==
  IF ~NeedsRefresh
  THEN /\ lock' = 0
       /\ UNCHANGED <<session_data, nsess, building>>
       /\ AfterInitialize(p, e, h)
       /\ StoreSessions(s)
  ELSE /\ nsess < MaxSessions
       /\ nsess' = nsess + 1
       /\ building' = [building EXCEPT ![p] = nsess + 1]
       /\ lock' = p
       /\ pc' = [pc EXCEPT ![p] = IF h = "open" THEN "boot_get" ELSE "boot_dead"]
       /\ pending' = [pending EXCEPT ![p] = e]
       /\ http_session' = h
       /\ UNCHANGED <<session_data, snap, reqHost, result, attempt>>
       /\ StoreSessions([s EXCEPT ![nsess + 1] = NewSession(nsess + 1)])

\* an initialize_session that does not wait for the lock
InitializeWithoutLock(p, s, e, h) == InitializeLocked(p, s, e, h)

\* TokenManager.initialize_session: async with self._lock
initialize_session(p, s, e, h) ==
  IF lock # 0
  THEN /\ pc' = [pc EXCEPT ![p] = "init_wait"]
       /\ pending' = [pending EXCEPT ![p] = e]
       /\ http_session' = h
       /\ UNCHANGED <<session_data, nsess, lock, building, snap, reqHost,
                      result, attempt>>
       /\ StoreSessions(s)
  ELSE InitializeLocked(p, s, e, h)

\* TokenManager.refresh_if_needed, called by _ensure_session after
\* _get_session has (re)created the pool
refresh_if_needed(p) ==
  IF NeedsRefresh
  THEN initialize_session(p, sess, 0, "open")
  ELSE /\ UNCHANGED <<session_data, nsess, lock, building>>
       /\ AfterInitialize(p, 0, "open")
       /\ StoreSessions(sess)

\* a task waiting for the lock gets it
LockAcquired(p) ==
  /\ pc[p] = "init_wait"
  /\ lock = 0
  /\ UNCHANGED pipeVars
  /\ InitializeLocked(p, sess, pending[p], http_session)
  /\ UNCHANGED <<now, domain_idx>>

\* the landing-page GET ends: cookies and tokens go into the new SessionData
\* (lines 149-157), or the exception is logged (lines 161-162); then the new
\* state is installed (line 164) and the lock released
BootstrapDone(p) ==
  /\ pc[p] \in Bootstrapping
  /\ UNCHANGED pipeVars
  /\ \E r \in IF pc[p] = "boot_get" THEN LandingResults ELSE {LandingFailed} :
       LET id == building[p]
           new == Landed(sess[id], r)
       IN  /\ session_data' = id
           /\ lock' = 0
           /\ building' = [building EXCEPT ![p] = 0]
           /\ UNCHANGED nsess
           /\ AfterInitialize(p, pending[p], http_session)
           /\ StoreSessions([sess EXCEPT ![id] = new])
  /\ UNCHANGED <<now, domain_idx>>

\* ------------------------------------------------------ TeraboxAPIClient

\* what the Host serves: file entries, file lists, share data
VideoFile ==
  [fs_id |-> 1, server_filename |-> <<"a", ".mp4">>, category |-> 1,
   mime_type |-> <<"video", "/mp4">>, size |-> 2048,
   thumbs |-> [url3 |-> <<"https://thumb.terabox.com/1">>]]
VideoWithDlink ==
  [fs_id |-> 2, server_filename |-> <<"b", ".MKV">>, category |-> 1,
   size |-> 4096, thumb |-> <<"https://thumb.terabox.com/2">>,
   dlink |-> <<"https://d.terabox.com/file/2">>]
VideoWithQueryDlink ==
  [fs_id |-> 4, server_filename |-> <<"c", ".mp4">>, category |-> 1,
   dlink |-> <<"https://d.terabox.com/file/4", "?", "sign=s">>]
OtherFile ==
  [fs_id |-> 3, filename |-> <<"notes", ".txt">>, category |-> 0,
   mime_type |-> <<"text", "/plain">>]
FileLists ==
  {<<>>, <<VideoFile>>, <<VideoWithDlink>>, <<OtherFile, VideoWithQueryDlink>>}
Lists == {NoList} \cup [present : {TRUE}, list : FileLists]
ShareDatas ==
  [shareid : {TRUE}, uk : {TRUE}, sign : {TRUE}, timestamp : {TRUE}, files : Lists]
  \cup {[shareid |-> TRUE, uk |-> TRUE, sign |-> TRUE, timestamp |-> FALSE,
          files |-> [present |-> TRUE, list |-> <<VideoFile>>]],
         [shareid |-> TRUE, uk |-> TRUE, sign |-> FALSE, timestamp |-> TRUE,
          files |-> [present |-> TRUE, list |-> <<VideoFile>>]],
         \* "timestamp": 0, a key that is present with an empty value
         [shareid |-> TRUE, uk |-> TRUE, sign |-> FALSE, timestamp |-> FALSE,
          files |-> [present |-> TRUE, list |-> <<VideoFile>>],
          blank |-> {"timestamp"}]}
  \cup [shareid : BOOLEAN, uk : {FALSE}, sign : {FALSE}, timestamp : {FALSE},
        files : {NoList}]

\* the entries of the lists file selection is checked on: a video by the
\* extension of its server_filename (in capitals), by that of its filename,
\* by its category, by its mime_type (in capitals), by its type; an entry
\* with a server_filename that is no video's and a filename that is; an
\* entry whose name is an extension's letters without the dot
ExtensionEntry ==
  [fs_id |-> 4, server_filename |-> <<"c", ".MP4">>, category |-> 0]
FilenameEntry == [fs_id |-> 5, filename |-> <<"d", ".webm">>]
CategoryEntry ==
  [fs_id |-> 6, server_filename |-> <<"e", ".txt">>, category |-> 1]
MimeTypeEntry ==
  [fs_id |-> 7, server_filename |-> <<"f">>, category |-> 0,
   mime_type |-> <<"VIDEO", "/mp4">>]
TypeEntry == [fs_id |-> 8, type |-> <<"video", "/x-flv">>]
BothNames ==
  [fs_id |-> 9, server_filename |-> <<"g", ".txt">>,
   filename |-> <<"g", ".mp4">>, category |-> 0]
FileEntries ==
  {ExtensionEntry, FilenameEntry, CategoryEntry, MimeTypeEntry, TypeEntry, BothNames, OtherFile,
   [fs_id |-> 1, server_filename |-> <<"mp4">>]}
SelectLists == UNION {[1..n -> FileEntries] : n \in 0..MaxFiles}

\* a Host whose answers about the share do not change: info is the body
\* of its answer to /api/shorturlinfo, page what its share page holds, list
\* what /share/list answers.  The share page holds the identifiers, or it
\* holds none that _parse_share_page finds; it may hold the file list too.
StableHosts ==
  [stable : {TRUE},
   info : {[t |-> "share", errno0 |-> TRUE,
            share |-> [shareid |-> TRUE, uk |-> TRUE, sign |-> TRUE,
                       timestamp |-> TRUE, files |-> NoList]]},
   page : {[shareid |-> TRUE, uk |-> TRUE, sign |-> TRUE, timestamp |-> TRUE,
            files |-> NoList],
           [shareid |-> TRUE, uk |-> TRUE, sign |-> TRUE, timestamp |-> TRUE,
            files |-> [present |-> TRUE, list |-> <<VideoFile>>]],
           NoShare},
   list : {[present |-> TRUE, list |-> <<VideoFile>>],
           [present |-> TRUE, list |-> <<VideoWithDlink>>]}]

\* what task p received about the share is the stable Host's answer
Serves(p) ==
  result[p].kind = "ok" =>
    CASE stage[p] = "shorturlinfo" -> result[p].body = host.info
      [] stage[p] = "sharepage" -> result[p].body.share = host.page
      [] stage[p] \in {"list_alt", "list"} -> result[p].body.files = host.list
      [] OTHER -> TRUE

\* the stable Host gives no other answer about the share, but it may refuse
\* the session or ask for a captcha
Refuses(p) ==
  (result[p].kind = "HostError"
   /\ stage[p] \in {"shorturlinfo", "list_alt", "list"})
  => result[p].errno \in SessionErrnos \cup {CaptchaErrno}

\* the keys _fetch_streaming_url and _fetch_alt_stream_url look for, in their order
StreamKeys == <<"lurl", "dlink", "url", "path", "mlink">>
VideoPlayKeys == <<"video", "url", "stream", "hd_url", "sd_url">>
\* a list of stream types with one type more
FiveStreamTypes ==
  <<"M3U8_AUTO_720", "M3U8_AUTO_480", "M3U8_FLV_264_480", "mp4", "M3U8_AUTO_360">>

STREAM_TYPES == <<"M3U8_AUTO_720", "M3U8_AUTO_480", "M3U8_FLV_264_480", "mp4">>

\* the bodies an errno-0 (or errno-less) response to the call of a stage can
\* have, as far as the stage reads them.  A key is in a body's set when the
\* body has it with a non-empty value.
Bodies(st) ==
  CASE st = "shorturlinfo" ->
         \* with "errno": 0 and the share's data, or without errno
         [t : {"share"}, errno0 : {TRUE}, share : ShareDatas]
         \cup {[t |-> "share", errno0 |-> FALSE, share |-> NoShare]}
    [] st \in {"list_alt", "list"} ->
         [t : {"list"}, files : Lists]
    [] st = "streaming" ->
         \* urls: "absent" (or empty), or a non-empty list or dict whose
         \* (first) element has the keys of item
         [t : {"streaming"}, keys : {{}, {"lurl"}, {"url", "mlink"}},
          urls : {"absent"}, item : {{}}]
         \cup [t : {"streaming"}, keys : {{}}, urls : {"list", "dict"},
               item : {{}, {"url"}, {"dlink"}}]
    [] st = "download" ->
         \* list: absent (or empty), or holding an element with the keys of item
         [t : {"download"}, list : BOOLEAN, item : {{}, {"dlink"}, {"url"}},
          dlink : BOOLEAN]
    [] st = "filemetas" ->
         \* info: a non-empty list; dlink: its first element has one
         [t : {"filemetas"}, info : BOOLEAN, dlink : BOOLEAN]
    [] st = "videoPlay" ->
         [t : {"videoPlay"}, keys : {{}, {"video"}, {"url", "hd_url"}}]
    [] OTHER -> {NoBody}

\* one attempt of _request up to its first suspension: _ensure_session
\* (_get_session creates the pool when there is none or it is closed, then
\* refresh_if_needed), then the request
StartAttempt(p) ==
  /\ refresh_if_needed(p)
  /\ UNCHANGED <<now, domain_idx>>

\* a caller awaits get(...) or post(...): tenacity's first attempt
Call(p) ==
  /\ pc[p] = "idle"
  /\ stage[p] = "none"
  /\ UNCHANGED pipeVars
  /\ StartAttempt(p)

\* tenacity's sleep between two attempts is over
Retry(p) ==
  /\ pc[p] = "backoff"
  /\ UNCHANGED pipeVars
  /\ StartAttempt(p)

\* lines 134-136: the response's cookies go into the SessionData that
\* _request read at line 112
FoldCookies(p, c) ==
  IF snap[p] # 0
  THEN [sess EXCEPT ![snap[p]].cookies = @ \cup c]
  ELSE sess

\* a retry policy without stop_after_attempt
AlwaysBackoff(p, s) ==
  /\ pc' = [pc EXCEPT ![p] = "backoff"]
  /\ result' = [result EXCEPT ![p] = [NoResult EXCEPT !.kind = "TransportError"]]
  /\ snap' = [snap EXCEPT ![p] = 0]
  /\ reqHost' = [reqHost EXCEPT ![p] = 0]
  /\ UNCHANGED <<session_data, nsess, lock, building, http_session,
                 pending, now, attempt>>
  /\ StoreSessions(s)

\* tenacity after an attempt raised aiohttp.ClientError or
\* asyncio.TimeoutError: sleep and try again, or give up after MaxAttempts
TransportFailure(p, s) ==
  /\ IF attempt[p] < MaxAttempts
     THEN /\ pc' = [pc EXCEPT ![p] = "backoff"]
          /\ result' = [result EXCEPT ![p] =
                          [NoResult EXCEPT !.kind = "TransportError"]]
          /\ UNCHANGED attempt
     ELSE /\ pc' = [pc EXCEPT ![p] = "idle"]
          /\ attempt' = [attempt EXCEPT ![p] = 0]
          /\ result' = [result EXCEPT ![p] =
                          [NoResult EXCEPT !.kind = "RetryError"]]
  /\ snap' = [snap EXCEPT ![p] = 0]
  /\ reqHost' = [reqHost EXCEPT ![p] = 0]
  /\ UNCHANGED <<session_data, nsess, lock, building, http_session,
                 pending, now>>
  /\ StoreSessions(s)

\* the exchange of session.request ends with aiohttp.ClientError (caught at
\* line 175: rotate, re-raise), possibly after the response's cookies were read
ClientErrorResponse(p) ==
  /\ pc[p] \in InFlight
  /\ UNCHANGED pipeVars
  /\ domain_idx' = _rotate_domain(domain_idx)
  /\ \E c \in IF pc[p] = "inflight" THEN RespCookieSets ELSE {{}} :
       TransportFailure(p, FoldCookies(p, c))

\* the exchange ends with asyncio.TimeoutError (the total timeout of the pool):
\* no except clause of _request catches it
TimeoutResponse(p) ==
  /\ pc[p] = "inflight"
  /\ UNCHANGED pipeVars
  /\ UNCHANGED domain_idx
  /\ \E c \in RespCookieSets : TransportFailure(p, FoldCookies(p, c))

\* a response whose body is JSON with errno 0 or without errno, or is not
\* JSON with a status below 400 (raw_html): _request returns it
OkResponse(p) ==
  /\ pc[p] = "inflight"
  /\ UNCHANGED pipeVars
  /\ pc' = [pc EXCEPT ![p] = "idle"]
  /\ snap' = [snap EXCEPT ![p] = 0]
  /\ reqHost' = [reqHost EXCEPT ![p] = 0]
  /\ attempt' = [attempt EXCEPT ![p] = 0]
  /\ UNCHANGED <<session_data, nsess, lock, building, http_session, domain_idx,
                 pending, now>>
  /\ \E b \in Bodies(stage[p]), c \in RespCookieSets :
       /\ result' = [result EXCEPT ![p] =
                       [NoResult EXCEPT !.kind = "ok", !.body = b, !.cookies = c]]
       /\ StoreSessions(FoldCookies(p, c))

\* a response that is not JSON with a status of 400 or more (line 150)
HttpErrorResponse(p) ==
  /\ pc[p] = "inflight"
  /\ UNCHANGED pipeVars
  /\ RaiseApiError(p, DefaultErrno)
  /\ UNCHANGED <<session_data, nsess, lock, building, http_session, domain_idx,
                 now>>
  /\ \E c \in RespCookieSets : StoreSessions(FoldCookies(p, c))

\* the errno values the Host answers with at the call of stage st: 2 is what
\* /share/streaming answers for a stream type that does not apply to the file
ErrnosAt(st) == IF st = "streaming" THEN Errnos \cup {2} ELSE Errnos

\* a cursor that moves on whatever the errno
RotateOnAnyErrno(e, i) == (i + 1) % Len(BASE_DOMAINS)

\* lines 166-171: the mirror cursor after a response with an errno that is
\* not one of SessionErrnos
CursorAfterErrno(e, i) == IF e = CaptchaErrno THEN _rotate_domain(i) ELSE i

\* a JSON response with errno # 0 (lines 156-171)
ErrnoResponse(p) ==
  /\ pc[p] = "inflight"
  /\ UNCHANGED pipeVars
  /\ UNCHANGED now
  /\ \E c \in RespCookieSets, e \in ErrnosAt(stage[p]) \ {0} :
       IF e \in SessionErrnos
       THEN \* _get_session, initialize_session, then raise
            /\ UNCHANGED domain_idx
            /\ initialize_session(p, FoldCookies(p, c), e, "open")
       ELSE /\ domain_idx' = CursorAfterErrno(e, domain_idx)
            /\ RaiseApiError(p, e)
            /\ UNCHANGED <<session_data, nsess, lock, building, http_session>>
            /\ StoreSessions(FoldCookies(p, c))

\* a close that leaves the exchanges in flight on the pool alone
CloseLeavingRequests ==
  /\ http_session = "open"
  /\ http_session' = "closed"
  /\ UNCHANGED <<now, session_data, sess, nsess, lock, domain_idx, pc,
                 attempt, pending, building, snap, reqHost, result>>
  /\ UNCHANGED pipeVars

\* TeraboxAPIClient.close (TeraboxExtractor.close): the pool is closed, and
\* with it the connections of the exchanges in flight
close ==
  /\ http_session = "open"
  /\ http_session' = "closed"
  /\ pc' = [p \in Procs |->
              CASE pc[p] = "inflight" -> "inflight_dead"
                [] pc[p] = "boot_get" -> "boot_dead"
                [] pc[p] = "page_inflight" -> "page_dead"
                [] pc[p] = "head_inflight" -> "head_dead"
                [] OTHER -> pc[p]]
  /\ UNCHANGED <<now, session_data, sess, nsess, lock, domain_idx,
                 attempt, pending, building, snap, reqHost, result>>
  /\ UNCHANGED pipeVars

\* time passes; the landing-page GET ends within its timeout
Tick ==
  /\ now < MaxTime
  /\ \A p \in Procs :
       pc[p] \in Bootstrapping =>
         now + 1 <= sess[building[p]].created + BootstrapTimeout
  /\ now' = now + 1
  /\ UNCHANGED <<session_data, sess, nsess, lock, http_session, domain_idx,
                 pc, attempt, pending, building, snap, reqHost, result>>
  /\ UNCHANGED pipeVars

\* ------------------------------------------------------ TeraboxExtractor

\* the first key of order that is in present, "" when there is none
FirstKey(order, present) ==
  IF \E i \in 1..Len(order) : order[i] \in present
  THEN order[CHOOSE i \in 1..Len(order) :
               /\ order[i] \in present
               /\ \A j \in 1..(i - 1) : order[j] \notin present]
  ELSE ""

\* the entry of fl at the least of the positions idx, NoFile when idx is empty
FirstFile(fl, idx) ==
  IF idx # {}
  THEN fl[CHOOSE i \in idx : \A j \in idx : i <= j]
  ELSE NoFile

\* str.lower() on the pieces the model's names and MIME types are made of
LowerCase ==
  [s \in {".MP4", ".MKV", "VIDEO"} |->
     CASE s = ".MP4" -> ".mp4" [] s = ".MKV" -> ".mkv" [] s = "VIDEO" -> "video"]
lower(s) == [i \in DOMAIN s |-> IF s[i] \in DOMAIN LowerCase THEN LowerCase[s[i]] ELSE s[i]]

video_extensions ==
  {".mp4", ".mkv", ".avi", ".mov", ".wmv", ".flv", ".webm", ".m4v", ".ts"}

\* line 325-326: the name ends with a video extension
HasVideoExtension(f) ==
  LET filename == lower(Get(f, "server_filename", Get(f, "filename", <<>>)))
  IN  filename # <<>> /\ filename[Len(filename)] \in video_extensions

\* lines 331-332
HasVideoCategory(f) == Get(f, "category", 0) = 1

\* lines 337-338: "video" is in the MIME type
HasVideoMime(f) ==
  LET mime == lower(Get(f, "mime_type", Get(f, "type", <<>>)))
  IN  \E i \in DOMAIN mime : mime[i] = "video"

\* one pass instead of three: the first entry that matches by extension,
\* category or MIME type
FindFirstMatchOfAny(fl) ==
  LET Matching == {i \in 1..Len(fl) : \/ HasVideoExtension(fl[i])
                                 \/ HasVideoCategory(fl[i])
                                 \/ HasVideoMime(fl[i])}
  IN  IF Matching # {} THEN FirstFile(fl, Matching)
      ELSE IF fl # <<>> THEN fl[1] ELSE NoFile

\* the three passes without the last line: None when no entry matches
FindVideoOrNone(fl) ==
  LET Matching == {i \in 1..Len(fl) : \/ HasVideoExtension(fl[i])
                                      \/ HasVideoCategory(fl[i])
                                      \/ HasVideoMime(fl[i])}
      ByExt == {i \in 1..Len(fl) : HasVideoExtension(fl[i])}
      ByCategory == {i \in 1..Len(fl) : HasVideoCategory(fl[i])}
  IN  IF ByExt # {} THEN FirstFile(fl, ByExt)
      ELSE IF ByCategory # {} THEN FirstFile(fl, ByCategory)
      ELSE FirstFile(fl, Matching \ (ByExt \cup ByCategory))

\* TeraboxExtractor._find_video_file
_find_video_file(fl) ==
  LET ByExt == {i \in 1..Len(fl) : HasVideoExtension(fl[i])}
      ByCategory == {i \in 1..Len(fl) : HasVideoCategory(fl[i])}
      ByMime == {i \in 1..Len(fl) : HasVideoMime(fl[i])}
  IN  IF ByExt # {} THEN FirstFile(fl, ByExt)
      ELSE IF ByCategory # {} THEN FirstFile(fl, ByCategory)
      ELSE IF ByMime # {} THEN FirstFile(fl, ByMime)
      ELSE IF fl # <<>> THEN fl[1] ELSE NoFile

\* lines 447-458 of _fetch_streaming_url on an errno-0 response to type k:
\* ret says that the function returns (url, or None), else it goes on to the
\* next type
\* a reading that looks into urls before the five fields
StreamingResultUrlsFirst(b, k) ==
  IF b.urls \in {"list", "dict"}
  THEN [ret |-> TRUE,
        url |-> IF "url" \in b.item THEN <<"streaming", STREAM_TYPES[k], "urls.url">>
                ELSE IF "url" \in Get(b, "blank", {}) THEN NoUrl
                ELSE IF "dlink" \in b.item THEN <<"streaming", STREAM_TYPES[k], "urls.dlink">>
                ELSE NoUrl]
  ELSE IF b.keys # {}
  THEN [ret |-> TRUE, url |-> <<"streaming", STREAM_TYPES[k], FirstKey(StreamKeys, b.keys)>>]
  ELSE [ret |-> FALSE, url |-> NoUrl]

\* a body's blank, when it has one, is the keys the (first) element of urls
\* has with an empty value: get("url", ...) finds such a key
StreamingResult(b, k) ==
  IF b.keys # {}
  THEN [ret |-> TRUE, url |-> <<"streaming", STREAM_TYPES[k], FirstKey(StreamKeys, b.keys)>>]
  ELSE IF b.urls \in {"list", "dict"}
  THEN [ret |-> TRUE,
        url |-> IF "url" \in b.item THEN <<"streaming", STREAM_TYPES[k], "urls.url">>
                ELSE IF "url" \in Get(b, "blank", {}) THEN NoUrl
                ELSE IF "dlink" \in b.item THEN <<"streaming", STREAM_TYPES[k], "urls.dlink">>
                ELSE NoUrl]
  ELSE [ret |-> FALSE, url |-> NoUrl]

\* lines 499-506 of _fetch_download_url
DownloadResult(b) ==
  IF b.list
  THEN IF "dlink" \in b.item THEN <<"download", "list.dlink">>
       ELSE IF "url" \in b.item THEN <<"download", "list.url">>
       ELSE NoUrl
  ELSE IF b.dlink THEN <<"download", "dlink">> ELSE NoUrl

\* lines 528-531 of _fetch_alt_stream_url: ret says that the function returns
FilemetasResult(b) ==
  IF b.info
  THEN [ret |-> TRUE, url |-> IF b.dlink THEN <<"filemetas", "dlink">> ELSE NoUrl]
  ELSE [ret |-> FALSE, url |-> NoUrl]

\* lines 546-550 of _fetch_alt_stream_url
VideoPlayResult(b) ==
  IF b.keys # {} THEN <<"videoPlay", FirstKey(VideoPlayKeys, b.keys)>> ELSE NoUrl

\* str(response.url) of a HEAD that ended with status 200, after redirects
FinalUrl == <<"https://data.terabox.com/final">>

\* a _process_dlink that returns None when the probe did not end with 200
ProcessDlinkOrNone(dlink, ok200) == IF ok200 THEN FinalUrl ELSE NoUrl

\* a _process_dlink that gives the dlink back as it got it
ProcessDlinkUnchanged(dlink, ok200) == IF ok200 THEN FinalUrl ELSE dlink

\* _process_dlink on a non-empty dlink whose HEAD ended with status 200
\* (ok200) or otherwise: lines 393-415
_process_dlink(dlink, ok200) ==
  LET terminated ==
        IF \E i \in DOMAIN dlink : dlink[i] = "?"
        THEN Append(dlink, "&")
        ELSE Append(dlink, "?")
  IN  IF ok200 THEN FinalUrl ELSE terminated

\* ---------------------------------------------------------- resolver.py

\* a URL is its text, a sequence of tokens: a maximal run of characters of
\* the class [a-zA-Z0-9_-] is one token, a percent escape is one token, and
\* every other character is a token of its own
Specials == {"/", "?", "&", "=", ".", ":", "%3F", "%2F"}
IsWord(t) == t \notin Specials
IsLabel(t) == t # "."
Scheme == <<"https", ":", "/", "/">>

\* the index of the first token of s that is in set, Len(s) + 1 if none is
Find(s, set) ==
  LET hits == {i \in 1..Len(s) : s[i] \in set}
  IN  IF hits = {} THEN Len(s) + 1
      ELSE CHOOSE i \in hits : \A j \in hits : i <= j

\* str.split(sep)
RECURSIVE split(_, _)
split(s, sep) ==
  LET i == Find(s, {sep})
  IN  IF i > Len(s) THEN <<s>>
      ELSE <<SubSeq(s, 1, i - 1)>> \o split(SubSeq(s, i + 1, Len(s)), sep)

\* str.strip(c)
RECURSIVE strip(_, _)
strip(s, c) ==
  IF s # <<>> /\ Head(s) = c THEN strip(Tail(s), c)
  ELSE IF s # <<>> /\ s[Len(s)] = c THEN strip(SubSeq(s, 1, Len(s) - 1), c)
  ELSE s

\* urllib.parse.unquote on the escapes of "?" and "/"
unquote(s) ==
  [i \in 1..Len(s) |->
     IF s[i] = "%3F" THEN "?" ELSE IF s[i] = "%2F" THEN "/" ELSE s[i]]

\* urllib.parse.urlparse of an https URL without a fragment: the netloc ends
\* at the first "/" or "?", the path at the first "?"
urlparse(url) ==
  LET rest == SubSeq(url, Len(Scheme) + 1, Len(url))
      netloc == SubSeq(rest, 1, Find(rest, {"/", "?"}) - 1)
      after == SubSeq(rest, Len(netloc) + 1, Len(rest))
      q == Find(after, {"?"})
  IN  [netloc |-> netloc,
       path |-> SubSeq(after, 1, q - 1),
       query |-> SubSeq(after, q + 1, Len(after))]

\* a field of the query string that parse_qs keeps: it has a "=" and a
\* non-blank value
HasValue(field) == Find(field, {"="}) < Len(field)

\* urllib.parse.parse_qs(query)[key]: the decoded values of the fields named
\* key, in order; <<>> when key is not in the dict
parse_qs(query, key) ==
  LET fields == SelectSeq(split(query, "&"), HasValue)
      name(f) == unquote(SubSeq(f, 1, Find(f, {"="}) - 1))
      value(f) == unquote(SubSeq(f, Find(f, {"="}) + 1, Len(f)))
      named == {i \in 1..Len(fields) : name(fields[i]) = <<key>>}
      RECURSIVE values(_)
      values(i) ==
        IF i > Len(fields) THEN <<>>
        ELSE (IF i \in named THEN <<value(fields[i])>> ELSE <<>>) \o values(i + 1)
  IN  values(1)

KNOWN_DOMAINS ==
  {<<"terabox", "com">>, <<"www", "terabox", "com">>,
   <<"1024tera", "com">>, <<"teraboxapp", "com">>}

CANONICAL_DOMAIN == <<"www", ".", "terabox", ".", "com">>

\* the substrings of the heuristic of is_terabox_url, as whole labels
TERABOX_PATTERNS ==
  {"terabox", "tera", "box", "dubox", "funbox", "nepho", "mirro", "momer"}

\* SHARE_PATTERNS, each the tokens before its group ([?&] is a set of two);
\* the group ([a-zA-Z0-9_-]+) is the word that follows them
SHARE_PATTERNS ==
  << <<{"/"}, {"s"}, {"/"}>>,
     <<{"/"}, {"sharing"}, {"/"}, {"link"}, {"?"}, {"surl"}, {"="}>>,
     <<{"?", "&"}, {"surl"}, {"="}>>,
     <<{"/"}, {"wap"}, {"/"}, {"s"}, {"/"}>>,
     <<{"/"}, {"web"}, {"/"}, {"share"}, {"/"}, {"link"}, {"?"}, {"surl"}, {"="}>>,
     <<{"/"}, {"share"}, {"/"}, {"link"}, {"?"}, {"surl"}, {"="}>> >>

\* re.search(pattern, url).group(1), NoSurl when there is no match: the
\* leftmost place where the pattern's tokens are followed by a word
search(pattern, url) ==
  LET n == Len(pattern)
      hits == {i \in 1..Len(url) :
                 /\ i + n <= Len(url)
                 /\ \A k \in 1..n : url[i + k - 1] \in pattern[k]
                 /\ IsWord(url[i + n])}
  IN  IF hits = {} THEN NoSurl
      ELSE <<url[(CHOOSE i \in hits : \A j \in hits : i <= j) + n]>>

\* a URL of the given host and of what follows the host
Https(h, rest) == Scheme \o h \o rest

\* the URLs a caller hands to extract: a share link on a mirror, a mirror's
\* front page, a share-shaped link on a foreign host
Urls ==
  {Https(CANONICAL_DOMAIN, <<"/", "s", "/", "1abc">>),
   Https(CANONICAL_DOMAIN, <<"/">>),
   Https(<<"example", ".", "com">>, <<"/", "s", "/", "xxx">>)}

\* domain.replace("www.", "") on a host whose only "www" is its first label
WithoutWww(h) == IF h # <<>> /\ Head(h) = "www" THEN Tail(h) ELSE h

\* domain.endswith(known) for a host below a known domain; a label that
\* merely ends with a known name is found by the heuristic instead
EndsWith(d, k) ==
  /\ Len(k) < Len(d)
  /\ SubSeq(d, Len(d) - Len(k) + 1, Len(d)) = k

\* DomainResolver.is_terabox_url, on the labels of the netloc
is_terabox_url(u) ==
  LET domain == WithoutWww(SelectSeq(urlparse(u).netloc, IsLabel))
  IN  \/ \E known \in KNOWN_DOMAINS :
            \/ domain = WithoutWww(known)
            \/ EndsWith(domain, WithoutWww(known))
      \/ \E i \in 1..Len(domain) : domain[i] \in TERABOX_PATTERNS

\* DomainResolver.extract_surl: the patterns in order, then the surl query
\* parameter, then the path segment after "s"; None for a url that is None
\* (the TypeError of re.search is caught at line 130)
extract_surl(u) ==
  LET matched == {k \in 1..Len(SHARE_PATTERNS) :
                    search(SHARE_PATTERNS[k], u) # NoSurl}
      parsed == urlparse(u)
      params == parse_qs(parsed.query, "surl")
      path_parts == split(strip(parsed.path, "/"), "/")
  IN  IF matched # {}
      THEN search(SHARE_PATTERNS[CHOOSE k \in matched :
                                   \A j \in matched : k <= j], u)
      ELSE IF params # <<>> THEN params[1]
      ELSE IF Len(path_parts) >= 2 /\ path_parts[1] = <<"s">>
      THEN path_parts[2]
      ELSE NoSurl

\* DomainResolver.normalize_url
normalize_url(u) ==
  LET surl == extract_surl(u)
  IN  IF surl # NoSurl
      THEN Https(CANONICAL_DOMAIN, <<"/", "s", "/">> \o surl)
      ELSE NoUrl

\* parse_url without the test of the host
ParseAnyHost(u) == extract_surl(u)

\* DomainResolver.parse_url, its surl
parse_url(u) ==
  IF ~is_terabox_url(u) THEN NoSurl ELSE extract_surl(u)

\* the surl of line 102 of extract for each URL a caller hands in: extract
\* computes it once and keeps it in a local for the rest of the call
Surls == [u \in Urls |-> parse_url(u)]

\* the fields of a VideoInfo that _get_stream_url fills in from the file
\* entry and the share data before it asks for any URL (lines 346-355)
ShareId == "123"
Uk == "456"
Sign == <<"abc">>
Timestamp == 1700000000
EmptyDict == [k \in {} |-> ""]
FromEntry(sd, f) ==
  [NoOut EXCEPT
     !.kind = "MediaInfo",
     !.filename = Get(f, "server_filename", Get(f, "filename", <<"Unknown">>)),
     !.title = Get(f, "server_filename", Get(f, "filename", <<"Unknown">>)),
     !.size = Get(f, "size", 0),
     !.fs_id = IF "fs_id" \in DOMAIN f THEN str(f.fs_id) ELSE "",
     !.share_id = IF sd.shareid THEN ShareId ELSE "",
     !.uk = IF sd.uk THEN Uk ELSE "",
     !.thumbnail = Get(Get(f, "thumbs", EmptyDict), "url3", Get(f, "thumb", NoUrl)),
     !.raw_data = f]

\* a VideoInfo whose stream_url is the download URL
MediaInfoOfDownload(sd, f, stream, download) ==
  [FromEntry(sd, f) EXCEPT
     !.stream_url = download,
     !.download_url = download,
     !.dlink = Get(f, "dlink", NoUrl)]

\* a VideoInfo that is built anew, from the file entry alone, when the URL
\* is that of /share/download
MediaInfoRebuilt(sd, f, stream, download) ==
  [FromEntry(IF download # NoUrl THEN NoShare ELSE sd, f) EXCEPT
     !.stream_url = stream,
     !.download_url = download,
     !.dlink = Get(f, "dlink", NoUrl)]

\* the VideoInfo of _get_stream_url for target file f of the share sd
MediaInfo(sd, f, stream, download) ==
  [FromEntry(sd, f) EXCEPT
     !.stream_url = stream,
     !.download_url = download,
     !.dlink = Get(f, "dlink", NoUrl)]

\* lines 122-128 of extract: the VideoInfo with the surl
Returned(p, video_info) == [video_info EXCEPT !.surl = Surls[input[p]]]

\* the identifiers of a VideoInfo
Ids(o) ==
  [fs_id |-> o.fs_id, share_id |-> o.share_id, uk |-> o.uk, surl |-> o.surl,
   set |-> TRUE]

ErrorOut(msg) == [NoOut EXCEPT !.kind = "error", !.error = msg]

\* the task's log, with u as the URL its last call yielded
Yielded(p, u) == [log[p] EXCEPT ![Len(log[p])].url = u]

\* extract returns or raises o
Finish(p, o, lg) ==
  /\ stage' = [stage EXCEPT ![p] = "none"]
  /\ share' = [share EXCEPT ![p] = NoShare]
  /\ file' = [file EXCEPT ![p] = NoFile]
  /\ stype' = [stype EXCEPT ![p] = 0]
  /\ refHost' = [refHost EXCEPT ![p] = 0]
  /\ out' = [out EXCEPT ![p] = o]
  /\ log' = [log EXCEPT ![p] = lg]
  /\ earlier' = IF host.stable /\ ~earlier.set /\ o.kind = "MediaInfo"
                THEN Ids(o)
                ELSE earlier
  /\ UNCHANGED <<clientVars, select, host, norm, reading, headers>>

\* _process_dlink up to session.head: _get_session, the headers, the request
StartHead(p) ==
  /\ http_session' = "open"
  /\ pc' = [pc EXCEPT ![p] = "head_inflight"]
  /\ result' = [result EXCEPT ![p] = NoResult]
  /\ UNCHANGED <<now, session_data, sess, nsess, lock, domain_idx,
                 attempt, pending, building, snap, reqHost>>

\* a dict with the key k added when the value is non-empty
WithKey(d, k, present, v) == IF present THEN d @@ (k :> v) ELSE d

\* params that leave out what lines 436-439 add
StreamingParamsWithoutSign(sd, f, k) ==
  [type |-> STREAM_TYPES[k],
   uk |-> IF sd.uk THEN Uk ELSE "",
   shareid |-> IF sd.shareid THEN ShareId ELSE "",
   fid |-> IF "fs_id" \in DOMAIN f THEN str(f.fs_id) ELSE ""]

\* the params of _fetch_streaming_url for type k (lines 429-439); fid is
\* the text of the entry's fs_id, as the query string carries it
StreamingParams(sd, f, k) ==
  WithKey(WithKey([type |-> STREAM_TYPES[k],
                   uk |-> IF sd.uk THEN Uk ELSE "",
                   shareid |-> IF sd.shareid THEN ShareId ELSE "",
                   fid |-> IF "fs_id" \in DOMAIN f THEN str(f.fs_id) ELSE ""],
                  "sign", sd.sign, Sign),
          "timestamp", sd.timestamp, Timestamp)

\* a signature that does not depend on the timestamp
SignOfShareId(timestamp, share_id) == <<"md5", share_id>>

\* TokenManager.generate_sign: the MD5 digest of "<share_id>_<timestamp>"
generate_sign(timestamp, share_id) == <<"md5", share_id, "_", timestamp>>

\* the params of _fetch_download_url at the time now (lines 469-487):
\* get("timestamp", int(time.time())) finds a key that is present with the
\* empty value 0
DownloadParams(sd, f) ==
  LET shareid == IF sd.shareid THEN ShareId ELSE ""
      timestamp == IF sd.timestamp THEN Timestamp
                   ELSE IF "timestamp" \in Get(sd, "blank", {}) THEN 0
                   ELSE now
      sign == IF sd.sign THEN Sign ELSE generate_sign(timestamp, shareid)
  IN  WithKey([shareid |-> shareid,
               uk |-> IF sd.uk THEN Uk ELSE "",
               fid_list |-> IF "fs_id" \in DOMAIN f THEN str(f.fs_id) ELSE "",
               sign |-> sign,
               timestamp |-> timestamp],
              "jsToken", session_data # 0 /\ sess[session_data].js_token, "js_token")

\* the params of the first /share/list of _get_file_list (lines 277-285)
ListAltParams(surl) ==
  [shorturl |-> surl, root |-> "1", dir |-> "/", page |-> "1", num |-> "100",
   order |-> "asc", by |-> "name"]

\* params that always hold both identifiers
ListParamsWithIds(sd, surl) ==
  ListAltParams(surl) @@ [shareid |-> IF sd.shareid THEN ShareId ELSE "",
                          uk |-> IF sd.uk THEN Uk ELSE ""]

\* the params of the standard /share/list (lines 296-309)
ListParams(sd, surl) ==
  WithKey(WithKey(ListAltParams(surl), "shareid", sd.shareid, ShareId),
          "uk", sd.uk, Uk)

\* the params of the request of stage st for the share identifier surl; for
\* the share page its URL; the requests of _fetch_alt_stream_url are logged
\* without their params
Params(st, k, sd, f, surl) ==
  CASE st = "shorturlinfo" -> [shorturl |-> surl, root |-> "1"]
    \* the path of the URL _fetch_share_info hands to fetch_page (line 149);
    \* its host is current_domain, which StartCall keeps in refHost
    [] st = "sharepage" -> [path |-> <<"/", "s", "/">> \o surl]
    [] st = "list_alt" -> ListAltParams(surl)
    [] st = "list" -> ListParams(sd, surl)
    [] st = "streaming" -> StreamingParams(sd, f, k)
    [] st = "download" -> DownloadParams(sd, f)
    [] OTHER -> EmptyDict

\* extract goes on to the call of stage st (for "streaming": with type k),
\* with share data sd and target file f: api_client.get, fetch_page or
\* _process_dlink, up to its first suspension
StartCall(p, st, k, sd, f, lg) ==
  /\ stage' = [stage EXCEPT ![p] = st]
  /\ stype' = [stype EXCEPT ![p] = k]
  /\ share' = [share EXCEPT ![p] = sd]
  /\ file' = [file EXCEPT ![p] = f]
  /\ refHost' = [refHost EXCEPT ![p] = domain_idx]
  /\ log' = [log EXCEPT ![p] =
               Append(lg, [ep |-> st, type |-> k, url |-> NoUrl,
                           params |-> Params(st, k, sd, f, Surls[input'[p]])])]
  /\ out' = [out EXCEPT ![p] = NoOut]
  /\ UNCHANGED <<select, host, earlier, norm, reading, headers>>
  /\ IF st = "head" THEN StartHead(p) ELSE StartAttempt(p)

\* the ladder of _get_stream_url from rung st on, after the rungs before st
\* yielded nothing
_get_stream_url(p, st, sd, f, lg) ==
  CASE st = "head" ->
         IF Get(f, "dlink", NoUrl) # NoUrl
         THEN StartCall(p, "head", 0, sd, f, lg)
         ELSE StartCall(p, "streaming", 1, sd, f, lg)
    [] st = "streaming" -> StartCall(p, "streaming", 1, sd, f, lg)
    [] st = "download" -> StartCall(p, "download", 0, sd, f, lg)
    [] st = "filemetas" -> StartCall(p, "filemetas", 0, sd, f, lg)
    [] st = "raise" -> Finish(p, ErrorOut("Could not obtain streaming URL"), lg)

\* lines 114-123 of extract without the test of line 114: _find_video_file
\* is asked on an empty list too
SelectFileUntested(p, sd, fl, lg) ==
  IF _find_video_file(fl) = NoFile
  THEN Finish(p, ErrorOut("No video file found in share"), lg)
  ELSE _get_stream_url(p, "head", sd, _find_video_file(fl), lg)

\* lines 114-120 of extract: what they raise on the file list fl, "" when
\* they raise nothing
SelectionError(fl) ==
  IF fl = <<>> THEN "No files found in share"
  ELSE IF _find_video_file(fl) = NoFile THEN "No video file found in share"
  ELSE ""

\* lines 114-123 of extract on the file list of stage 2
SelectFile(p, sd, fl, lg) ==
  IF SelectionError(fl) # ""
  THEN Finish(p, ErrorOut(SelectionError(fl)), lg)
  ELSE _get_stream_url(p, "head", sd, _find_video_file(fl), lg)

\* a _get_file_list that goes back to the share page when the share data
\* holds no list
FileListFromSharePage(p, sd, lg) ==
  IF sd.files.present
  THEN SelectFile(p, sd, sd.files.list, lg)
  ELSE StartCall(p, "sharepage", 0, sd, NoFile, lg)

\* TeraboxExtractor._get_file_list up to its first call
_get_file_list(p, sd, lg) ==
  IF sd.files.present
  THEN SelectFile(p, sd, sd.files.list, lg)
  ELSE IF ~sd.shareid \/ ~sd.uk
  THEN StartCall(p, "list_alt", 0, sd, NoFile, lg)
  ELSE StartCall(p, "list", 0, sd, NoFile, lg)

\* a task calls extract(url): lines 101-112, up to the first request
Extract(p) ==
  /\ pc[p] = "idle"
  /\ stage[p] = "none"
  /\ \E u \in Urls :
       /\ input' = [input EXCEPT ![p] = u]
       /\ IF Surls[u] # NoSurl
          THEN StartCall(p, "shorturlinfo", 0, NoShare, NoFile, <<>>)
          ELSE Finish(p, ErrorOut("Invalid Terabox URL"), <<>>)

\* a _fetch_share_info that fetches the share page whatever shorturlinfo
\* answered
AlwaysSharePage(p) ==
  /\ pc[p] = "idle"
  /\ stage[p] = "shorturlinfo"
  /\ UNCHANGED input
  /\ IF result[p].kind = "RetryError"
     THEN Finish(p, ErrorOut("RetryError"), log[p])
     ELSE StartCall(p, "sharepage", 0, NoShare, NoFile, log[p])

\* _fetch_share_info after api_client.get("/api/shorturlinfo")
AfterShortUrlInfo(p) ==
  /\ pc[p] = "idle"
  /\ stage[p] = "shorturlinfo"
  /\ UNCHANGED input
  /\ CASE result[p].kind = "ok" /\ result[p].body.errno0 ->
            _get_file_list(p, result[p].body.share, log[p])
       [] result[p].kind = "RetryError" ->
            Finish(p, ErrorOut("RetryError"), log[p])
       [] OTHER ->
            StartCall(p, "sharepage", 0, NoShare, NoFile, log[p])

\* a fetch_page that is called again after its GET raised
AfterSharePageRetrying(p) ==
  /\ pc[p] = "idle"
  /\ stage[p] = "sharepage"
  /\ UNCHANGED input
  /\ IF result[p].kind = "ok"
     THEN _get_file_list(p, result[p].body.share, log[p])
     ELSE StartCall(p, "sharepage", 0, NoShare, NoFile, log[p])

\* _fetch_share_info after fetch_page: _parse_share_page gives the share data
AfterSharePage(p) ==
  /\ pc[p] = "idle"
  /\ stage[p] = "sharepage"
  /\ UNCHANGED input
  /\ IF result[p].kind = "ok"
     THEN _get_file_list(p, result[p].body.share, log[p])
     ELSE Finish(p, ErrorOut(result[p].kind), log[p])

\* a _get_file_list that lets the TeraboxAPIError of its first call through
AfterListAltRaising(p) ==
  /\ pc[p] = "idle"
  /\ stage[p] = "list_alt"
  /\ UNCHANGED input
  /\ CASE result[p].kind = "ok" /\ result[p].body.files.present ->
            SelectFile(p, share[p], result[p].body.files.list, log[p])
       [] result[p].kind = "ok" /\ ~result[p].body.files.present ->
            StartCall(p, "list", 0, share[p], NoFile, log[p])
       [] OTHER ->
            Finish(p, ErrorOut(result[p].kind), log[p])

\* _get_file_list after the first /share/list (lines 288-292)
AfterListAlt(p) ==
  /\ pc[p] = "idle"
  /\ stage[p] = "list_alt"
  /\ UNCHANGED input
  /\ CASE result[p].kind = "ok" /\ result[p].body.files.present ->
            SelectFile(p, share[p], result[p].body.files.list, log[p])
       [] result[p].kind = "RetryError" ->
            Finish(p, ErrorOut("RetryError"), log[p])
       [] OTHER ->
            StartCall(p, "list", 0, share[p], NoFile, log[p])

\* a _get_file_list whose last except clause catches every exception
AfterListCatchingAll(p) ==
  /\ pc[p] = "idle"
  /\ stage[p] = "list"
  /\ UNCHANGED input
  /\ IF result[p].kind = "ok"
     THEN SelectFile(p, share[p], result[p].body.files.list, log[p])
     ELSE SelectFile(p, share[p], <<>>, log[p])

\* _get_file_list after the standard /share/list (lines 313-317)
AfterList(p) ==
  /\ pc[p] = "idle"
  /\ stage[p] = "list"
  /\ UNCHANGED input
  /\ CASE result[p].kind = "ok" ->
            SelectFile(p, share[p], result[p].body.files.list, log[p])
       [] result[p].kind = "RetryError" ->
            Finish(p, ErrorOut("RetryError"), log[p])
       [] OTHER ->
            SelectFile(p, share[p], <<>>, log[p])

\* _get_stream_url after _process_dlink (lines 362-364)
AfterHead(p) ==
  /\ pc[p] = "idle"
  /\ stage[p] = "head"
  /\ UNCHANGED input
  /\ LET u == _process_dlink(file[p].dlink, result[p].body.ok200)
     IN  IF u # NoUrl
         THEN Finish(p, Returned(p, MediaInfo(share[p], file[p], u, NoUrl)), Yielded(p, u))
         ELSE _get_stream_url(p, "streaming", share[p], file[p], Yielded(p, u))

\* _fetch_streaming_url after the response to one type, and lines 368-373
AfterStreaming(p) ==
  /\ pc[p] = "idle"
  /\ stage[p] = "streaming"
  /\ UNCHANGED input
  /\ LET r == IF result[p].kind = "ok"
              THEN StreamingResult(result[p].body, stype[p])
              ELSE [ret |-> FALSE, url |-> NoUrl]
         lg == Yielded(p, r.url)
     IN  CASE result[p].kind = "RetryError" ->
                Finish(p, ErrorOut("RetryError"), log[p])
           [] result[p].kind # "RetryError" /\ r.url # NoUrl ->
                Finish(p, Returned(p, MediaInfo(share[p], file[p], r.url, NoUrl)), lg)
           [] result[p].kind # "RetryError" /\ r.url = NoUrl /\ ~r.ret
              /\ stype[p] < Len(STREAM_TYPES) ->
                StartCall(p, "streaming", stype[p] + 1, share[p], file[p], lg)
           [] OTHER ->
                _get_stream_url(p, "download", share[p], file[p], lg)

\* _fetch_download_url after the response, and lines 374-380
AfterDownload(p) ==
  /\ pc[p] = "idle"
  /\ stage[p] = "download"
  /\ UNCHANGED input
  /\ LET u == IF result[p].kind = "ok" THEN DownloadResult(result[p].body) ELSE NoUrl
     IN  CASE result[p].kind = "RetryError" ->
                Finish(p, ErrorOut("RetryError"), log[p])
           [] result[p].kind # "RetryError" /\ u # NoUrl ->
                Finish(p, Returned(p, MediaInfo(share[p], file[p], u, u)), Yielded(p, u))
           [] OTHER ->
                _get_stream_url(p, "filemetas", share[p], file[p], Yielded(p, u))

\* _fetch_alt_stream_url after the response of /api/filemetas, and lines 381-385
AfterFilemetas(p) ==
  /\ pc[p] = "idle"
  /\ stage[p] = "filemetas"
  /\ UNCHANGED input
  /\ LET r == IF result[p].kind = "ok"
              THEN FilemetasResult(result[p].body)
              ELSE [ret |-> FALSE, url |-> NoUrl]
         lg == Yielded(p, r.url)
     IN  CASE result[p].kind = "RetryError" ->
                Finish(p, ErrorOut("RetryError"), log[p])
           [] result[p].kind # "RetryError" /\ r.url # NoUrl ->
                Finish(p, Returned(p, MediaInfo(share[p], file[p], r.url, NoUrl)), lg)
           [] result[p].kind # "RetryError" /\ r.url = NoUrl /\ r.ret ->
                _get_stream_url(p, "raise", share[p], file[p], lg)
           [] OTHER ->
                StartCall(p, "videoPlay", 0, share[p], file[p], lg)

\* _fetch_alt_stream_url after the response of /share/videoPlay, and lines 381-385
AfterVideoPlay(p) ==
  /\ pc[p] = "idle"
  /\ stage[p] = "videoPlay"
  /\ UNCHANGED input
  /\ LET u == IF result[p].kind = "ok" THEN VideoPlayResult(result[p].body) ELSE NoUrl
     IN  CASE result[p].kind = "RetryError" ->
                Finish(p, ErrorOut("RetryError"), log[p])
           [] result[p].kind # "RetryError" /\ u # NoUrl ->
                Finish(p, Returned(p, MediaInfo(share[p], file[p], u, NoUrl)), Yielded(p, u))
           [] OTHER ->
                _get_stream_url(p, "raise", share[p], file[p], Yielded(p, u))

\* the exchange of fetch_page's session.get ends: with a response, whose
\* cookies go into the state that is current now (lines 209-212) and whose
\* text _parse_share_page reads; or with an exception, which fetch_page
\* lets through
PageResponse(p) ==
  /\ pc[p] \in {"page_inflight", "page_dead"}
  /\ pc' = [pc EXCEPT ![p] = "idle"]
  /\ reqHost' = [reqHost EXCEPT ![p] = 0]
  /\ UNCHANGED <<now, session_data, nsess, lock, building, http_session,
                 domain_idx, attempt, pending, snap>>
  /\ UNCHANGED pipeVars
  /\ \/ /\ pc[p] = "page_inflight"
        /\ \E c \in RespCookieSets, sd \in ShareDatas :
             /\ result' = [result EXCEPT ![p] =
                             [NoResult EXCEPT
                                !.kind = "ok",
                                !.body = [t |-> "share", errno0 |-> TRUE, share |-> sd],
                                !.cookies = c]]
             /\ StoreSessions(IF session_data # 0
                              THEN [sess EXCEPT ![session_data].cookies = @ \cup c]
                              ELSE sess)
     \/ /\ result' = [result EXCEPT ![p] = [NoResult EXCEPT !.kind = "ClientError"]]
        /\ StoreSessions(sess)

\* the exchange of _process_dlink's session.head ends: with status 200, or
\* with another status or an exception (lines 410-415)
HeadResponse(p) ==
  /\ pc[p] \in {"head_inflight", "head_dead"}
  /\ pc' = [pc EXCEPT ![p] = "idle"]
  /\ \E ok \in IF pc[p] = "head_inflight" THEN BOOLEAN ELSE {FALSE} :
       result' = [result EXCEPT ![p] =
                    [NoResult EXCEPT !.kind = "ok",
                                     !.body = [t |-> "head", ok200 |-> ok]]]
  /\ UNCHANGED <<now, session_data, sess, nsess, lock, building, http_session,
                 domain_idx, attempt, pending, snap, reqHost>>
  /\ UNCHANGED pipeVars

Next ==
  \/ \E p \in Procs : Call(p)
  \/ \E p \in Procs : Retry(p)
  \/ \E p \in Procs : LockAcquired(p)
  \/ \E p \in Procs : BootstrapDone(p)
  \/ \E p \in Procs : OkResponse(p)
  \/ \E p \in Procs : HttpErrorResponse(p)
  \/ \E p \in Procs : ErrnoResponse(p)
  \/ \E p \in Procs : ClientErrorResponse(p)
  \/ \E p \in Procs : TimeoutResponse(p)
  \/ Tick

\* the extractor in use: tasks call the API while time passes
Spec == Init /\ [][Next]_vars

\* the extractor around a shutdown: close() is called while tasks call the
\* API, within one tick of the clock
NextClose ==
  \/ \E p \in Procs : Call(p)
  \/ \E p \in Procs : Retry(p)
  \/ \E p \in Procs : LockAcquired(p)
  \/ \E p \in Procs : BootstrapDone(p)
  \/ \E p \in Procs : OkResponse(p)
  \/ \E p \in Procs : HttpErrorResponse(p)
  \/ \E p \in Procs : ErrnoResponse(p)
  \/ \E p \in Procs : ClientErrorResponse(p)
  \/ \E p \in Procs : TimeoutResponse(p)
  \/ close

SpecClose == Init /\ [][NextClose]_vars

\* normalization on its own: normalize_url applied to a URL, and again to
\* what it returned; the URLs are every host below with every share form
\* below carrying every identifier below, and each host's front page
NormalizeHosts ==
  {<<"terabox", ".", "com">>, CANONICAL_DOMAIN, <<"example", ".", "com">>}
NormalizeForms ==
  {<<"/", "s", "/">>,
   <<"/", "wap", "/", "s", "/">>,
   <<"/", "sharing", "/", "link", "?", "surl", "=">>,
   <<"/", "web", "/", "share", "/", "link", "?", "surl", "=">>,
   <<"/", "share", "/", "link", "?", "surl", "=">>,
   <<"/", "x", "?", "surl", "=">>,
   <<"/", "x", "?", "a", "=", "b", "&", "surl", "=">>}
NormalizeIds ==
  {<<"1abc">>, <<".", "abc">>, <<"ab", ".", "cd">>, <<"%3F", "x">>,
   <<".", "ab", "%2F", "cd">>}
NormalizeUrls ==
  {Https(h, f \o i) : h \in NormalizeHosts, f \in NormalizeForms, i \in NormalizeIds}
    \cup {Https(h, <<"/">>) : h \in NormalizeHosts}

InitNormalize ==
  /\ InitExtractor
  /\ select = NoSelect
  /\ host = NoHost
  /\ earlier = NoIds
  /\ headers = NoHeaders
  /\ norm \in [url : NormalizeUrls, surl : {NoSurl}, once : {NoUrl},
               twice : {NoUrl}, step : {0}]
  /\ reading = NoReading

\* parse_url(url) and normalize_url(url)
Normalize ==
  /\ norm.step = 0
  /\ norm' = [norm EXCEPT !.surl = parse_url(norm.url),
                          !.once = normalize_url(norm.url),
                          !.step = 1]
  /\ UNCHANGED <<clientVars, extractVars, select, host, earlier, reading, headers>>

\* normalize_url of what normalize_url returned
NormalizeAgain ==
  /\ norm.step = 1
  /\ norm' = [norm EXCEPT !.twice = normalize_url(norm.once), !.step = 2]
  /\ UNCHANGED <<clientVars, extractVars, select, host, earlier, reading, headers>>

NextNormalize == Normalize \/ NormalizeAgain

SpecNormalize == InitNormalize /\ [][NextNormalize]_vars

\* the reading of a /share/streaming response on its own: lines 447-458 of
\* _fetch_streaming_url on every errno-0 body, for every type.  keys is the
\* fields of StreamKeys the body has with a non-empty value; item and blank
\* are the keys the (first) element of its urls has with a non-empty and
\* with an empty value
StreamBodies ==
  {b \in [t : {"streaming"},
          keys : SUBSET {StreamKeys[i] : i \in 1..Len(StreamKeys)},
          urls : {"absent", "list", "dict"},
          item : SUBSET {"url", "dlink"},
          blank : SUBSET {"url", "dlink"}] :
     /\ b.item \cap b.blank = {}
     /\ b.urls = "absent" => b.item = {} /\ b.blank = {}}

InitStreaming ==
  /\ InitExtractor
  /\ select = NoSelect
  /\ host = NoHost
  /\ earlier = NoIds
  /\ headers = NoHeaders
  /\ norm = NoNorm
  /\ reading \in [body : StreamBodies, type : 1..Len(STREAM_TYPES),
                 ret : {FALSE}, url : {NoUrl}, done : {FALSE}]

ReadStreamingResponse ==
  /\ ~reading.done
  /\ reading' = [reading EXCEPT
                  !.ret = StreamingResult(reading.body, reading.type).ret,
                  !.url = StreamingResult(reading.body, reading.type).url,
                  !.done = TRUE]
  /\ UNCHANGED <<clientVars, extractVars, select, host, earlier, norm, headers>>

NextStreaming == ReadStreamingResponse

SpecStreaming == InitStreaming /\ [][NextStreaming]_vars

\* the headers of the requests on their own: a state is constructed and
\* installed, then each verb builds the headers of a request
InitHeaders ==
  /\ InitExtractor
  /\ select = NoSelect
  /\ host = NoHost
  /\ earlier = NoIds
  /\ headers = NoHeaders
  /\ norm = NoNorm
  /\ reading = NoReading

\* initialize_session, lines 122-146 and 164: the new state's user_agent is
\* one pick, the landing-page GET goes out with the default headers and
\* that user_agent as User-Agent
HeadersOfBootstrap ==
  /\ headers.installed = ""
  /\ \E s \in UserAgents, h \in get_default_headers :
       headers' = [installed |-> s,
                   sent |-> [headers.sent EXCEPT !["bootstrap"] = [h EXCEPT !.ua = s]]]
  /\ UNCHANGED <<clientVars, extractVars, select, host, earlier, norm, reading>>

\* _request, lines 101-103, for get and post: no caller passes headers
HeadersOfRequest(verb) ==
  /\ headers.installed # ""
  /\ \E h \in get_api_headers(headers.installed) :
       headers' = [headers EXCEPT !.sent[verb] = h]
  /\ UNCHANGED <<clientVars, extractVars, select, host, earlier, norm, reading>>

\* fetch_page, line 204
HeadersOfFetchPage ==
  /\ headers.installed # ""
  /\ \E h \in get_default_headers :
       headers' = [headers EXCEPT !.sent["fetch_page"] = h]
  /\ UNCHANGED <<clientVars, extractVars, select, host, earlier, norm, reading>>

\* _process_dlink, line 401
HeadersOfHead ==
  /\ headers.installed # ""
  /\ \E h \in get_api_headers(headers.installed) :
       headers' = [headers EXCEPT !.sent["head"] = h]
  /\ UNCHANGED <<clientVars, extractVars, select, host, earlier, norm, reading>>

NextHeaders ==
  \/ HeadersOfBootstrap
  \/ HeadersOfRequest("get")
  \/ HeadersOfRequest("post")
  \/ HeadersOfFetchPage
  \/ HeadersOfHead

SpecHeaders == InitHeaders /\ [][NextHeaders]_vars

\* file selection on its own: lines 114-120 of extract on a file list
InitSelect ==
  /\ InitExtractor
  /\ host = NoHost
  /\ earlier = NoIds
  /\ headers = NoHeaders
  /\ norm = NoNorm
  /\ reading = NoReading
  /\ select \in [file_list : SelectLists, target_file : {NoFile},
                  error : {""}, done : {FALSE}]

SelectTarget ==
  /\ ~select.done
  /\ select' = [select EXCEPT
                  !.target_file = _find_video_file(select.file_list),
                  !.error = SelectionError(select.file_list),
                  !.done = TRUE]
  /\ UNCHANGED <<clientVars, extractVars, host, earlier, norm, reading, headers>>

NextSelect == SelectTarget

SpecSelect == InitSelect /\ [][NextSelect]_vars

\* one task inside extract
NextExtract ==
  \/ Extract(1)
  \/ AfterShortUrlInfo(1)
  \/ AfterSharePage(1)
  \/ AfterListAlt(1)
  \/ AfterList(1)
  \/ AfterHead(1)
  \/ AfterStreaming(1)
  \/ AfterDownload(1)
  \/ AfterFilemetas(1)
  \/ AfterVideoPlay(1)
  \/ Retry(1)
  \/ BootstrapDone(1)
  \/ OkResponse(1)
  \/ HttpErrorResponse(1)
  \/ ErrnoResponse(1)
  \/ ClientErrorResponse(1)
  \/ TimeoutResponse(1)
  \/ PageResponse(1)
  \/ HeadResponse(1)

SpecExtract == Init /\ [][NextExtract]_vars

\* no response has set a cookie: cookies have no part in the control flow
\* of extract
Plain ==
  /\ "cookies" \in DOMAIN result[1] => result[1].cookies = {}
  /\ \A i \in SessIds : sess[i].cookies \subseteq FabricatedCookies

\* one task inside extract when every request returns or fails in the end:
\* a response or an exception arrives for the request in flight, the sleep
\* of the retry ends, and the event loop resumes the task whose await is over
Proceed ==
  \/ AfterShortUrlInfo(1)
  \/ AfterSharePage(1)
  \/ AfterListAlt(1)
  \/ AfterList(1)
  \/ AfterHead(1)
  \/ AfterStreaming(1)
  \/ AfterDownload(1)
  \/ AfterFilemetas(1)
  \/ AfterVideoPlay(1)
  \/ Retry(1)
  \/ BootstrapDone(1) /\ Plain'
  \/ OkResponse(1) /\ Plain'
  \/ HttpErrorResponse(1) /\ Plain'
  \/ ErrnoResponse(1) /\ Plain'
  \/ ClientErrorResponse(1) /\ Plain'
  \/ TimeoutResponse(1) /\ Plain'
  \/ PageResponse(1) /\ Plain'
  \/ HeadResponse(1)

NextExtractFair == Extract(1) \/ Proceed

SpecExtractFair == Init /\ [][NextExtractFair]_vars /\ WF_vars(Proceed)

\* extractions of one share on a Host whose answers about it do not change,
\* while sessions are refreshed and mirrors rotate
InitStable ==
  /\ InitExtractor
  /\ select = NoSelect
  /\ host \in StableHosts
  /\ earlier = NoIds
  /\ headers = NoHeaders
  /\ norm = NoNorm
  /\ reading = NoReading

NextStable ==
  \/ Extract(1)
  \/ AfterShortUrlInfo(1)
  \/ AfterSharePage(1)
  \/ AfterListAlt(1)
  \/ AfterList(1)
  \/ AfterHead(1)
  \/ AfterStreaming(1)
  \/ AfterDownload(1)
  \/ AfterFilemetas(1)
  \/ AfterVideoPlay(1)
  \/ Retry(1)
  \/ BootstrapDone(1)
  \/ OkResponse(1) /\ Serves(1)'
  \/ HttpErrorResponse(1) /\ Refuses(1)'
  \/ ErrnoResponse(1) /\ Refuses(1)'
  \/ ClientErrorResponse(1)
  \/ TimeoutResponse(1)
  \/ PageResponse(1) /\ Serves(1)'
  \/ HeadResponse(1)

SpecStable == InitStable /\ [][NextStable]_vars

\* one task inside extract on a network that answers every request, while
\* time passes
NextAnswered ==
  \/ Extract(1)
  \/ AfterShortUrlInfo(1)
  \/ AfterSharePage(1)
  \/ AfterListAlt(1)
  \/ AfterList(1)
  \/ AfterHead(1)
  \/ AfterStreaming(1)
  \/ AfterDownload(1)
  \/ AfterFilemetas(1)
  \/ AfterVideoPlay(1)
  \/ BootstrapDone(1)
  \/ OkResponse(1)
  \/ PageResponse(1)
  \/ HeadResponse(1)
  \/ Tick

SpecAnswered == Init /\ [][NextAnswered]_vars

\* time passes between two extractions until the installed state is about
\* to expire, and the state a /share/streaming request was sent with
\* expires while the request is in flight
TickAroundStreaming ==
  /\ \/ /\ stage[1] = "none"
        /\ session_data # 0
        /\ now < sess[session_data].expires
     \/ /\ stage[1] = "streaming"
        /\ pc[1] = "inflight"
        /\ now = sess[snap[1]].expires
  /\ Tick

\* one task inside extract on a network that delivers every response, be
\* it an errno, with time passing around /share/streaming
NextExtractClock ==
  \/ Extract(1)
  \/ AfterShortUrlInfo(1)
  \/ AfterSharePage(1)
  \/ AfterListAlt(1)
  \/ AfterList(1)
  \/ AfterHead(1)
  \/ AfterStreaming(1)
  \/ AfterDownload(1)
  \/ AfterFilemetas(1)
  \/ AfterVideoPlay(1)
  \/ BootstrapDone(1)
  \/ OkResponse(1)
  \/ ErrnoResponse(1)
  \/ PageResponse(1)
  \/ HeadResponse(1)
  \/ TickAroundStreaming

SpecExtractClock == Init /\ [][NextExtractClock]_vars

\* ----------------------------------------------------------------- claims

\* C1 (as the specification states it): after an API call raised HostError
\* with errno in {-6, -9, 2}, the session state the task's next request uses
\* was created strictly later than the one in use when the error was seen,
\* and has another logid.
C1_SessionErrnoRebootstraps ==
  [][\A p \in Procs :
       (/\ pc[p] # "inflight"
        /\ pc'[p] = "inflight"
        /\ result[p].kind = "HostError"
        /\ result[p].errno \in SessionErrnos)
       => /\ sess'[snap'[p]].created > result[p].created
          /\ sess'[snap'[p]].logid # result[p].logid]_vars

\* C2: a response with errno 112 moves the mirror cursor on by exactly one
\* position modulo the number of mirrors, ends the call with HostError(112)
\* and starts no bootstrap; every request is addressed to the mirror the
\* cursor is at when it is sent.
C2_CaptchaRotatesByOne ==
  [][\A p \in Procs :
       /\ (/\ pc[p] = "inflight"
           /\ result'[p].kind = "HostError"
           /\ result'[p].errno = 112)
          => /\ domain_idx' = (domain_idx + 1) % Len(BASE_DOMAINS)
             /\ BASE_DOMAINS[domain_idx' + 1] # BASE_DOMAINS[domain_idx + 1]
             /\ pc'[p] = "idle"
             /\ session_data' = session_data
             /\ nsess' = nsess
             /\ lock' = lock
       /\ (pc[p] # "inflight" /\ pc'[p] = "inflight")
          => /\ reqHost'[p] = domain_idx'
             /\ domain_idx' = domain_idx]_vars

\* C2 witness: a call has ended with HostError(112), the first rotation took
\* the cursor from mirror 0 to mirror 1, and the one session is still installed
C2_Witness ==
  \E p \in Procs :
    /\ pc[p] = "idle"
    /\ result[p].kind = "HostError"
    /\ result[p].errno = 112
    /\ domain_idx = 1
    /\ nsess = 1
    /\ session_data = 1

\* C3: the ladder's calls are made in the order dlink, /share/streaming (its
\* types in order), /share/download, /api/filemetas, /share/videoPlay; no call
\* but the last has yielded a URL; and a returned MediaInfo's stream_url is
\* the URL the last call yielded.
C3_LadderInOrder ==
  \A p \in Procs :
    LET lg == log[p]
        n == Len(lg)
        Rank(e) == CASE e.ep = "head" -> 1
                     [] e.ep = "streaming" -> 1 + e.type
                     [] e.ep = "download" -> 6
                     [] e.ep = "filemetas" -> 7
                     [] e.ep = "videoPlay" -> 8
                     [] OTHER -> 0
    IN  /\ \A i, j \in 1..n :
             (i < j /\ Rank(lg[i]) > 0) => Rank(lg[i]) < Rank(lg[j])
        /\ \A i \in 1..n :
             (Rank(lg[i]) > 0 /\ (i = 1 \/ Rank(lg[i - 1]) = 0))
             => Rank(lg[i]) \in {1, 2}
        /\ \A i \in 1..(n - 1) : lg[i].url = NoUrl
        /\ out[p].kind = "MediaInfo"
           => /\ n > 0
              /\ Rank(lg[n]) > 0
              /\ lg[n].url # NoUrl
              /\ out[p].stream_url = lg[n].url

\* C3 witness: extract returned a MediaInfo whose URL came from the last rung,
\* after every rung before it was asked
C3_Witness ==
  /\ out[1].kind = "MediaInfo"
  /\ Len(log[1]) >= 8
  /\ log[1][Len(log[1])].ep = "videoPlay"
  /\ out[1].stream_url = <<"videoPlay", "video">>

\* C4 (as the specification states it): extract raises "Could not obtain
\* streaming URL" only after all four stream types of /share/streaming,
\* /share/download, /api/filemetas and /share/videoPlay have been requested.
C4_ErrorOnlyAfterEveryRung ==
  \A p \in Procs :
    out[p].error = "Could not obtain streaming URL"
    => /\ \A k \in 1..Len(STREAM_TYPES) :
            \E i \in 1..Len(log[p]) :
              log[p][i].ep = "streaming" /\ log[p][i].type = k
       /\ \A ep \in {"download", "filemetas", "videoPlay"} :
            \E i \in 1..Len(log[p]) : log[p][i].ep = ep

\* C5 (as the specification states it): once the pool is closed it stays
\* closed, and no request is sent.
C5_ClosedStaysClosed ==
  [][http_session = "closed"
     => /\ http_session' = "closed"
        /\ \A p \in Procs :
             pc'[p] \in {"inflight", "boot_get", "page_inflight", "head_inflight"}
             => pc[p] = pc'[p]]_vars

\* C5, amended: a request is only ever in flight on an open pool; a request
\* that close() caught in flight ends as a transport error; and a closed pool
\* is replaced by a new one only in a step in which a task starts an attempt
\* of a call or goes on to send its request.
C5_RequestsOnlyOnOpenPool ==
  [][/\ \A p \in Procs :
          pc'[p] \in {"inflight", "boot_get", "page_inflight", "head_inflight"}
          => http_session' = "open"
     /\ \A p \in Procs :
          (pc[p] = "inflight_dead" /\ pc'[p] # pc[p])
          => result'[p].kind \in {"TransportError", "RetryError"}
     /\ (http_session = "closed" /\ http_session' # "closed")
        => /\ http_session' = "open"
           /\ \E p \in Procs :
                /\ pc[p] \in {"idle", "backoff", "init_wait", "boot_dead"}
                /\ pc'[p] \in {"inflight", "init_wait", "boot_get"}
                /\ pc'[p] # pc[p]]_vars

\* C5 witness: one task's request was caught in flight by close(), and
\* another task's later request is in flight on the re-created pool
C5_Witness ==
  /\ http_session = "open"
  /\ \E p, q \in Procs : pc[p] = "inflight_dead" /\ pc[q] = "inflight"

\* C6: with a state installed and now < expires, an attempt goes straight to
\* its request with that state, unchanged, and no bootstrap; a bootstrap
\* starts only with no state installed or now >= expires, constructs exactly
\* one new state, and ends by installing it.
C6_RefreshOnlyWhenAbsentOrExpired ==
  [][/\ \A p \in Procs :
          /\ (/\ pc[p] \in {"idle", "backoff"}
              /\ pc'[p] # pc[p]
              /\ session_data # 0
              /\ now < sess[session_data].expires)
             => /\ pc'[p] = "inflight"
                /\ snap'[p] = session_data
                /\ session_data' = session_data
                /\ sess'[session_data] = sess[session_data]
                /\ nsess' = nsess
          /\ (pc[p] \notin Bootstrapping /\ pc'[p] \in Bootstrapping)
             => /\ session_data = 0 \/ now >= sess[session_data].expires
                /\ nsess' = nsess + 1
                /\ building'[p] = nsess'
          /\ (pc[p] \in Bootstrapping /\ pc'[p] \notin Bootstrapping)
             => /\ session_data' = building[p]
                /\ nsess' = nsess
          /\ (pc'[p] \in Bootstrapping) = (building'[p] # 0)
     /\ nsess' # nsess
        => \E q \in Procs : pc[q] \notin Bootstrapping /\ pc'[q] \in Bootstrapping]_vars

\* C6 witness: the first state expired and was replaced by a bootstrap, and a
\* task's second attempt is in flight with the new state, taken as installed
C6_Witness ==
  \E p \in Procs :
    /\ pc[p] = "inflight"
    /\ attempt[p] = 2
    /\ nsess = 2
    /\ session_data = 2
    /\ snap[p] = 2

\* C7 (as the specification states it): when refresh_if_needed has returned
\* and the request is sent, now < expires holds for the state it uses.
C7_ReturnedStateUnexpired ==
  [][\A p \in Procs :
       (pc[p] # "inflight" /\ pc'[p] = "inflight")
       => now' < sess'[snap'[p]].expires]_vars

\* C8: at most one task is in a bootstrap, and it holds the lock from the
\* construction of the new state to its installation; a task that needs a
\* refresh while the lock is held waits; and a waiting task that gets the lock
\* and finds an unexpired state installed uses it without a bootstrap.
C8_OneBootstrapUnderLock ==
  [][/\ Cardinality({p \in Procs : pc'[p] \in Bootstrapping}) <= 1
     /\ \A p \in Procs :
          /\ pc'[p] \in Bootstrapping => lock' = p
          /\ (pc[p] \notin Bootstrapping /\ pc'[p] \in Bootstrapping)
             => lock = 0 /\ \A q \in Procs : pc[q] \notin Bootstrapping
          /\ (/\ pc[p] \in {"idle", "backoff"}
              /\ pc'[p] # pc[p]
              /\ lock # 0
              /\ session_data = 0 \/ now > sess[session_data].expires)
             => pc'[p] = "init_wait" /\ nsess' = nsess
          /\ (/\ pc[p] = "init_wait"
              /\ pc'[p] # "init_wait"
              /\ session_data # 0
              /\ now < sess[session_data].expires)
             => /\ pc'[p] \notin Bootstrapping
                /\ nsess' = nsess
                /\ session_data' = session_data
                /\ pending[p] = 0 => snap'[p] = session_data]_vars

\* C8 witness: no state is installed, one task is in the bootstrap and the
\* other waits for the lock
C8_Witness ==
  \E p, q \in Procs :
    /\ session_data = 0
    /\ pc[p] = "boot_get"
    /\ lock = p
    /\ pc[q] = "init_wait"

\* C9: the state under construction is referred to by the bootstrapping task
\* alone: it is not the installed state and no request has it as its
\* snapshot.
C9_UnderConstructionNeverVisible ==
  \A p \in Procs :
    pc[p] \in Bootstrapping
    => /\ building[p] # 0
       /\ session_data # building[p]
       /\ \A q \in Procs : snap[q] # building[p]

\* C9 witness: during a bootstrap that replaces an expired state, another
\* task's request is in flight with the previous state, which is still the
\* installed one
C9_Witness ==
  \E p, q \in Procs :
    /\ pc[p] = "boot_get"
    /\ pc[q] = "inflight"
    /\ session_data # 0
    /\ snap[q] = session_data

\* C10: a call sends at most MaxAttempts requests; each request sent is
\* counted; a call goes to another attempt only from a request that ended
\* with a transport error; and a HostError ends the call at once.
C10_AtMostThreeRequests ==
  [][\A p \in Procs :
       /\ attempt'[p] <= 3
       /\ (pc[p] # "inflight" /\ pc'[p] = "inflight")
          => attempt'[p] = attempt[p] + 1
       /\ attempt'[p] # attempt[p]
          => \/ attempt'[p] = 0 /\ pc'[p] = "idle"
             \/ pc[p] # "inflight" /\ pc'[p] = "inflight"
       /\ (pc[p] # "backoff" /\ pc'[p] = "backoff")
          => pc[p] \in InFlight /\ result'[p].kind = "TransportError"
       /\ (pc[p] # "inflight" /\ pc'[p] = "inflight" /\ attempt[p] >= 1)
          => result[p].kind = "TransportError"
       /\ (result[p].kind # "HostError" /\ result'[p].kind = "HostError")
          => pc'[p] = "idle" /\ attempt'[p] = 0
       /\ (pending[p] # 0 /\ pc'[p] # pc[p])
          => pc'[p] # "inflight"]_vars

\* C10 witness: the third request of a call is in flight
C10_Witness ==
  \E p \in Procs : pc[p] = "inflight" /\ attempt[p] = 3

\* C11 (as the specification states it): every request that ends with a
\* transport error, a connection failure or a timeout, moves the mirror
\* cursor on by one position.
C11_TransportErrorRotates ==
  [][\A p \in Procs :
       (/\ pc[p] = "inflight"
        /\ pc'[p] # "inflight"
        /\ result'[p].kind \in {"TransportError", "RetryError"})
       => domain_idx' = (domain_idx + 1) % Len(BASE_DOMAINS)]_vars

\* C12: a response whose errno is neither 0 nor one of -6, -9, 2, 112 ends
\* the call with HostError of that errno; the mirror cursor, the installed
\* state's identity and all its fields but the cookies stay as they were, the
\* cookies only grow, and no bootstrap starts.
C12_OtherErrnoChangesNothing ==
  [][\A p \in Procs :
       (/\ pc[p] = "inflight"
        /\ result'[p].kind = "HostError"
        /\ result'[p].errno \notin {-6, -9, 2, 112})
       => /\ pc'[p] = "idle"
          /\ domain_idx' = domain_idx
          /\ session_data' = session_data
          /\ nsess' = nsess
          /\ lock' = lock
          /\ building' = building
          /\ session_data # 0
             => /\ [sess'[session_data] EXCEPT !.cookies = {}]
                   = [sess[session_data] EXCEPT !.cookies = {}]
                /\ sess[session_data].cookies \subseteq sess'[session_data].cookies
                /\ sess'[session_data].cookies \subseteq
                     sess[session_data].cookies \cup UNION RespCookieSets]_vars

\* C12 witness: a call ended with HostError(4) on the first mirror, and the
\* cookie its response set is in the installed state
C12_Witness ==
  \E p \in Procs :
    /\ pc[p] = "idle"
    /\ result[p].kind = "HostError"
    /\ result[p].errno = 4
    /\ domain_idx = 0
    /\ session_data = 1
    /\ "sid" \in sess[1].cookies

\* C13 (as the specification states it): a response with errno 2 to a
\* /share/streaming request ends the request at once, with no bootstrap
\* started or waited for and the mirror cursor where it was.
C13_StreamingErrno2Benign ==
  [][\A p \in Procs :
       (/\ stage[p] = "streaming"
        /\ pc[p] = "inflight"
        /\ \/ result'[p].kind = "HostError" /\ result'[p].errno = 2
           \/ pending'[p] = 2)
       => /\ pc'[p] = "idle"
          /\ nsess' = nsess
          /\ session_data' = session_data
          /\ domain_idx' = domain_idx]_vars

\* C14: when the caller's URL is not on a recognised mirror, or carries no
\* share identifier, extract ends with the error "Invalid Terabox URL" and
\* has started no request: nothing of the client, the session state or the
\* request log has changed.
C14_InvalidUrlNoRequest ==
  [][\A p \in Procs :
       (/\ stage[p] = "none"
        /\ pc[p] = "idle"
        /\ \/ input'[p] # input[p]
           \/ out'[p] # out[p]
           \/ stage'[p] # "none"
        /\ \/ ~is_terabox_url(input'[p])
           \/ extract_surl(input'[p]) = NoSurl)
       => /\ out'[p].kind = "error"
          /\ out'[p].error = "Invalid Terabox URL"
          /\ stage'[p] = "none"
          /\ log'[p] = <<>>
          /\ UNCHANGED clientVars]_vars

\* C14 witness: a foreign host's share-shaped link was refused before
\* anything was sent
C14_Witness ==
  /\ urlparse(input[1]).netloc = <<"example", ".", "com">>
  /\ extract_surl(input[1]) # NoSurl
  /\ out[1].error = "Invalid Terabox URL"
  /\ http_session = "None"
  /\ nsess = 0

\* the stage of extract a request belongs to, /api/shorturlinfo before the
\* share page within share discovery, the first /share/list before the
\* standard one within the listing
StageRank(ep) ==
  CASE ep = "shorturlinfo" -> 1
    [] ep = "sharepage" -> 2
    [] ep = "list_alt" -> 3
    [] ep = "list" -> 4
    [] OTHER -> 5

Stage2End(p) ==
  LET r == result[p]
      No == [ends |-> FALSE, list |-> <<>>]
  IN  CASE stage[p] = "shorturlinfo" /\ r.kind = "ok" ->
             IF r.body.errno0 /\ r.body.share.files.present
             THEN [ends |-> TRUE, list |-> r.body.share.files.list]
             ELSE No
        [] stage[p] = "sharepage" /\ r.kind = "ok" ->
             IF r.body.share.files.present
             THEN [ends |-> TRUE, list |-> r.body.share.files.list]
             ELSE No
        [] stage[p] = "list_alt" /\ r.kind = "ok" ->
             IF r.body.files.present
             THEN [ends |-> TRUE, list |-> r.body.files.list]
             ELSE No
        [] stage[p] = "list" /\ r.kind # "RetryError" ->
             [ends |-> TRUE,
              list |-> IF r.kind = "ok" THEN r.body.files.list ELSE <<>>]
        [] OTHER -> No

\* C16: extract ends with the error "No files found in share" exactly in
\* the step in which stage 2 ends with an empty file list; in that step no
\* file is selected and no request is started, and the extraction's requests
\* are those of stages 1 and 2 only.
C16_NoFilesIffEmptyList ==
  /\ [][\A p \in Procs :
          (/\ pc[p] = "idle"
           /\ stage[p] \in {"shorturlinfo", "sharepage", "list_alt", "list"}
           /\ \/ stage'[p] # stage[p]
              \/ log'[p] # log[p])
          => /\ (out'[p].error = "No files found in share")
                <=> (Stage2End(p).ends /\ Stage2End(p).list = <<>>)
             /\ (Stage2End(p).ends /\ Stage2End(p).list = <<>>)
                => /\ stage'[p] = "none"
                   /\ file'[p] = NoFile
                   /\ log'[p] = log[p]
                   /\ UNCHANGED clientVars]_vars
  /\ [](\A p \in Procs :
          out[p].error = "No files found in share"
          => /\ stage[p] = "none"
             /\ \A i \in 1..Len(log[p]) : StageRank(log[p][i].ep) < 5)

\* C16 witness: the standard /share/list answered with an empty list and
\* the extraction ended with the error
C16_Witness ==
  /\ out[1].error = "No files found in share"
  /\ log[1] # <<>>
  /\ log[1][Len(log[1])].ep = "list"
  /\ result[1].kind = "ok"
  /\ result[1].body.files = [present |-> TRUE, list |-> <<>>]

\* C17: selection is three passes in fixed priority, each giving its first
\* match in list order: when some entry's name ends with a video extension
\* (in any case), the first such entry is selected; else, when some entry has
\* category 1, the first such entry; else, when some entry's MIME type
\* contains "video", the first such entry.
C17_ThreePassPriority ==
  select.done =>
    LET fl == select.file_list
        Ext == {i \in 1..Len(fl) : HasVideoExtension(fl[i])}
        Cat == {i \in 1..Len(fl) : HasVideoCategory(fl[i])}
        Mime == {i \in 1..Len(fl) : HasVideoMime(fl[i])}
        Least(S) == CHOOSE i \in S : \A j \in S : i <= j
    IN  /\ Ext # {} => select.target_file = fl[Least(Ext)]
        /\ (Ext = {} /\ Cat # {}) => select.target_file = fl[Least(Cat)]
        /\ (Ext = {} /\ Cat = {} /\ Mime # {})
           => select.target_file = fl[Least(Mime)]

\* C17 witness: an entry named c.MP4 was selected though an entry matching
\* only by category and one matching only by MIME type come before it
C17_Witness ==
  /\ select.done
  /\ select.file_list = <<CategoryEntry, MimeTypeEntry, ExtensionEntry>>
  /\ select.target_file = ExtensionEntry

C19_HeadFailureYieldsDlink ==
  [][\A p \in Procs :
       (/\ stage[p] = "head"
        /\ pc[p] = "idle"
        /\ ~result[p].body.ok200
        /\ stage'[p] # "head")
       => /\ out'[p].kind = "MediaInfo"
          /\ out'[p].dlink = file[p].dlink
          /\ out'[p].stream_url = out'[p].dlink]_vars

\* C19, amended: in that case extract returns a MediaInfo whose dlink is the
\* entry's dlink and whose stream_url is that dlink with the "?" (or, when
\* the dlink has a query already, the "&") that _process_dlink appended
\* before the probe.
C19_HeadFailureYieldsTerminatedDlink ==
  [][\A p \in Procs :
       (/\ stage[p] = "head"
        /\ pc[p] = "idle"
        /\ ~result[p].body.ok200
        /\ stage'[p] # "head")
       => /\ out'[p].kind = "MediaInfo"
          /\ out'[p].dlink = file[p].dlink
          /\ stage'[p] = "none"
          /\ Len(out'[p].stream_url) = Len(out'[p].dlink) + 1
          /\ SubSeq(out'[p].stream_url, 1, Len(out'[p].dlink)) = out'[p].dlink
          /\ out'[p].stream_url[Len(out'[p].stream_url)]
               = IF \E i \in DOMAIN file[p].dlink : file[p].dlink[i] = "?"
                 THEN "&" ELSE "?"]_vars

\* C19 witness: the probe of a dlink with a query failed, and extract
\* returned the dlink with "&" appended
C19_Witness ==
  /\ out[1].kind = "MediaInfo"
  /\ result[1].body = [t |-> "head", ok200 |-> FALSE]
  /\ out[1].dlink = <<"https://d.terabox.com/file/4", "?", "sign=s">>
  /\ out[1].stream_url = <<"https://d.terabox.com/file/4", "?", "sign=s", "&">>

\* C20: the MediaInfo extract returns has its title, filename, size,
\* thumbnail, fs_id and raw data from the selected file entry, its share_id
\* and uk from the share data and its surl from the caller's URL, whichever
\* request of the ladder yielded the stream URL.
C20_MediaInfoFromEntry ==
  [][\A p \in Procs :
       (out'[p].kind = "MediaInfo" /\ stage[p] # "none" /\ stage'[p] = "none")
       => LET f == file[p]
              name == IF "server_filename" \in DOMAIN f THEN f.server_filename
                      ELSE IF "filename" \in DOMAIN f THEN f.filename
                      ELSE <<"Unknown">>
          IN  /\ out'[p].raw_data = f
              /\ out'[p].filename = name
              /\ out'[p].title = name
              /\ out'[p].size = (IF "size" \in DOMAIN f THEN f.size ELSE 0)
              /\ out'[p].thumbnail =
                   (IF "thumbs" \in DOMAIN f /\ "url3" \in DOMAIN f.thumbs
                    THEN f.thumbs.url3
                    ELSE IF "thumb" \in DOMAIN f THEN f.thumb ELSE NoUrl)
              /\ out'[p].fs_id = DecimalDigits[f.fs_id]
              /\ out'[p].share_id = (IF share[p].shareid THEN ShareId ELSE "")
              /\ out'[p].uk = (IF share[p].uk THEN Uk ELSE "")
              /\ out'[p].surl = extract_surl(input[p])]_vars

\* C20 witness: /share/download, the sixth request of the ladder, yielded
\* the URL, and the MediaInfo carries the entry's and the share's data
C20_Witness ==
  /\ out[1].kind = "MediaInfo"
  /\ log[1][Len(log[1])].ep = "download"
  /\ out[1].raw_data = VideoFile
  /\ out[1].size = 2048
  /\ out[1].thumbnail = <<"https://thumb.terabox.com/1">>
  /\ out[1].share_id = ShareId
  /\ out[1].uk = Uk
  /\ out[1].surl = <<"1abc">>

\* C21 (as the specification states it): every MediaInfo returned for a
\* share on a Host whose answers about it do not change has the fs_id,
\* share_id, uk and surl of the first one returned for it, whatever session
\* refreshes and mirror rotations happened.
C21_RepeatGivesEqualIds ==
  \A p \in Procs :
    (host.stable /\ earlier.set /\ out[p].kind = "MediaInfo")
    => Ids(out[p]) = earlier

\* C22 (as the specification states it): the cookies a response sets are in
\* the cookie map of the session state that is current once the response is
\* processed, also when the current state was replaced while the request
\* was in flight.
C22_CookiesIntoCurrentState ==
  [][\A p \in Procs :
       (/\ pc[p] \in {"inflight", "page_inflight"}
        /\ pc'[p] = "idle"
        /\ result'[p].kind = "ok"
        /\ session_data' # 0)
       => result'[p].cookies \subseteq sess'[session_data'].cookies]_vars

\* C23: when the landing-page GET of a bootstrap fails, the bootstrap does
\* not raise: it installs the state it constructed, holding the fabricated
\* cookies, a logid, a user agent and expires = created + RefreshInterval,
\* without jsToken, bdstoken and csrfToken; the lock is released and the
\* caller goes on (to its request, or to the HostError it was handling).
C23_FailedBootstrapInstalls ==
  [][\A p \in Procs :
       (/\ pc[p] \in Bootstrapping
        /\ pc'[p] \notin Bootstrapping
        /\ sess'[building[p]].landing = "failed")
       => /\ session_data' = building[p]
          /\ lock' = 0
          /\ LET s == sess'[session_data']
             IN  /\ s.cookies = FabricatedCookies
                 /\ s.logid # 0
                 /\ s.user_agent = UserAgent
                 /\ s.expires = s.created + RefreshInterval
                 /\ ~s.js_token /\ ~s.bdstoken /\ ~s.csrf_token
          /\ pending[p] = 0 => pc'[p] = "inflight" /\ snap'[p] = building[p]
          /\ pending[p] # 0 => /\ result'[p].kind = "HostError"
                               /\ result'[p].errno = pending[p]]_vars

\* C23 witness: a request is in flight that was sent with a state whose
\* landing-page GET had failed
C23_Witness ==
  /\ session_data # 0
  /\ sess[session_data].landing = "failed"
  /\ sess[session_data].cookies = FabricatedCookies
  /\ pc[1] = "inflight"
  /\ snap[1] = session_data


\* C24: normalization is idempotent on every URL that parses: when parse_url
\* gives a surl for a URL, normalizing the normalized URL gives the
\* normalized URL again
C24_NormalizeIdempotent ==
  (norm.step = 2 /\ norm.surl # NoSurl) => norm.twice = norm.once


\* C25: when stage 1 fell back to the share page and the page yielded
\* shareid, uk, sign, timestamp and a file list whose selected entry has no
\* dlink, every /share/streaming request carries those four values, the
\* type it asks for, and the selected entry's fs_id as fid, and nothing from
\* the share besides
C25_StreamingCarriesPageValues ==
  \A p \in Procs :
    LET lg == log[p]
        pg == host.page
        target == _find_video_file(pg.files.list)
    IN  (/\ host.stable
         /\ Len(lg) >= 2
         /\ lg[2].ep = "sharepage"
         /\ pg.shareid /\ pg.uk /\ pg.sign /\ pg.timestamp
         /\ pg.files.present
         /\ target # NoFile
         /\ "dlink" \notin DOMAIN target)
        => \A i \in 1..Len(lg) :
             lg[i].ep = "streaming"
             => lg[i].params =
                  [type |-> STREAM_TYPES[lg[i].type], uk |-> Uk,
                   shareid |-> ShareId, fid |-> str(target.fs_id),
                   sign |-> Sign, timestamp |-> Timestamp]

\* the page's file list is <<VideoFile>>; all four types were
\* requested after the fallback
C25_Witness ==
  /\ host.stable
  /\ host.page.files.present
  /\ Len(log[1]) = 6
  /\ log[1][2].ep = "sharepage"
  /\ log[1][6].ep = "streaming"
  /\ log[1][6].type = 4
  /\ log[1][6].params.fid = "1"
  /\ log[1][6].params.sign = Sign


\* C26 (as the specification states it): rung 2 asks the stream types in
\* the order of STREAM_TYPES, one after the other, and the ladder goes on to
\* /share/download, rung 2 having yielded nothing, only after all four
\* types were requested.
C26_NextRungAfterAllTypes ==
  \A p \in Procs :
    LET lg == log[p]
        asked == {i \in 1..Len(lg) : lg[i].ep = "streaming"}
    IN  /\ \A i \in asked :
             /\ lg[i].type = 1 + Cardinality({j \in asked : j < i})
             /\ lg[i].type <= Len(STREAM_TYPES)
        /\ (\E i \in 1..Len(lg) : lg[i].ep = "download")
           => Cardinality(asked) = Len(STREAM_TYPES)


\* C27: from an errno-0 /share/streaming response rung 2 takes the first
\* field among lurl, dlink, url, path, mlink that has a non-empty value;
\* only when none has does it look into urls, whose (first) element gives
\* its url when it has that key and its dlink otherwise; a response with
\* none of the five fields and no urls sends the rung to the next type
C27_FirstFieldThenUrls ==
  reading.done =>
    LET b == reading.body
        type == STREAM_TYPES[reading.type]
        at(key) == <<"streaming", type, key>>
    IN  /\ "lurl" \in b.keys => reading.url = at("lurl")
        /\ ("dlink" \in b.keys /\ "lurl" \notin b.keys) => reading.url = at("dlink")
        /\ ("url" \in b.keys /\ b.keys \cap {"lurl", "dlink"} = {})
           => reading.url = at("url")
        /\ ("path" \in b.keys /\ b.keys \cap {"lurl", "dlink", "url"} = {})
           => reading.url = at("path")
        /\ b.keys = {"mlink"} => reading.url = at("mlink")
        /\ b.keys # {} => reading.ret
        /\ (b.keys = {} /\ b.urls # "absent") =>
             /\ reading.ret
             /\ "url" \in b.item => reading.url = at("urls.url")
             /\ "url" \in b.blank => reading.url = NoUrl
             /\ ("url" \notin b.item \cup b.blank /\ "dlink" \in b.item)
                => reading.url = at("urls.dlink")
             /\ ("url" \notin b.item \cup b.blank /\ "dlink" \notin b.item)
                => reading.url = NoUrl
        /\ (b.keys = {} /\ b.urls = "absent") => ~reading.ret /\ reading.url = NoUrl

\* a response with dlink, mlink and a urls list: the dlink field is taken
C27_Witness ==
  /\ reading.done
  /\ reading.body.keys = {"dlink", "mlink"}
  /\ reading.body.urls = "list"
  /\ reading.body.item = {"url"}
  /\ reading.url = <<"streaming", "M3U8_AUTO_480", "dlink">>


C29_ShortUrlInfoThenOnePage ==
  /\ [](\A p \in Procs :
          LET lg == log[p]
          IN  /\ lg # <<>> =>
                   /\ lg[1].ep = "shorturlinfo"
                   /\ lg[1].params = [shorturl |-> extract_surl(input[p]), root |-> "1"]
              /\ Cardinality({i \in 1..Len(lg) : lg[i].ep = "sharepage"}) <= 1)
  /\ [][\A p \in Procs :
          /\ (stage[p] = "shorturlinfo" /\ pc[p] = "idle" /\ stage'[p] # stage[p]) =>
               LET r == result[p]
               IN  /\ (r.kind = "ok" /\ r.body.errno0) =>
                        /\ stage'[p] # "sharepage"
                        /\ stage'[p] # "none" => share'[p] = r.body.share
                   /\ (r.kind = "HostError" \/ (r.kind = "ok" /\ ~r.body.errno0)) =>
                        /\ stage'[p] = "sharepage"
                        /\ Len(log'[p]) = 2
                        /\ log'[p][2].params.path =
                             <<"/", "s", "/">> \o extract_surl(input[p])
                        /\ pc'[p] = "page_inflight"
                        /\ reqHost'[p] = domain_idx'
          /\ (pc[p] = "page_inflight" /\ pc'[p] # pc[p]) =>
               /\ pc'[p] = "idle"
               /\ stage'[p] = "sharepage"
          /\ (stage[p] = "sharepage" /\ pc[p] = "idle" /\ stage'[p] # stage[p]
              /\ result[p].kind = "ok" /\ stage'[p] # "none")
             => share'[p] = result[p].body.share]_vars

\* shorturlinfo was refused with a captcha, the cursor moved on, and the page
\* is being asked of the mirror the cursor is at now
C29_Witness ==
  /\ Len(log[1]) = 2
  /\ log[1][2].ep = "sharepage"
  /\ log[1][2].params.path = <<"/", "s", "/", "1abc">>
  /\ pc[1] = "page_inflight"
  /\ domain_idx = 1
  /\ current_domain(reqHost[1]) = "terabox.com"


\* C30 (as the specification states it): when the share context of stage 1
\* holds a file list, stage 2 sends no /share/list request; otherwise it
\* requests /share/list, and every such request holds shareid exactly when
\* stage 1 provided shareid and uk exactly when stage 1 provided uk.
C30_ListRequestHoldsKnownIds ==
  [][\A p \in Procs :
       LET n == Len(log'[p])
           sd == share'[p]
       IN  /\ (/\ stage[p] \in {"shorturlinfo", "sharepage"}
               /\ pc[p] = "idle"
               /\ result[p].kind = "ok"
               /\ stage[p] = "shorturlinfo" => result[p].body.errno0)
              => (result[p].body.share.files.present
                    <=> stage'[p] \notin {"list_alt", "list"})
           /\ (/\ stage'[p] \in {"list_alt", "list"}
               /\ n = Len(log[p]) + 1)
              => LET prm == log'[p][n].params
                 IN  /\ ~sd.files.present
                     /\ "shareid" \in DOMAIN prm <=> sd.shareid
                     /\ "uk" \in DOMAIN prm <=> sd.uk]_vars


\* C30, amended: when the share context of stage 1 holds a file list,
\* stage 2 sends no /share/list request; otherwise it requests /share/list.
\* When stage 1 did not provide both shareid and uk, the first request holds
\* neither, and the standard request follows only when that one ended
\* without a list.  The standard request holds shareid exactly when stage 1
\* provided shareid and uk exactly when it provided uk.
C30_ListRequestOnlyWithoutList ==
  [][\A p \in Procs :
       LET n == Len(log'[p])
           sd == share'[p]
       IN  /\ (/\ stage[p] \in {"shorturlinfo", "sharepage"}
               /\ pc[p] = "idle"
               /\ result[p].kind = "ok"
               /\ stage[p] = "shorturlinfo" => result[p].body.errno0)
              => LET got == result[p].body.share
                 IN  /\ got.files.present <=> stage'[p] \notin {"list_alt", "list"}
                     /\ (~got.files.present /\ got.shareid /\ got.uk)
                        => stage'[p] = "list"
                     /\ (~got.files.present /\ ~(got.shareid /\ got.uk))
                        => stage'[p] = "list_alt"
           /\ (/\ stage'[p] \in {"list_alt", "list"}
               /\ n = Len(log[p]) + 1)
              => LET prm == log'[p][n].params
                 IN  /\ log'[p][n].ep = stage'[p]
                     /\ ~sd.files.present
                     /\ prm.shorturl = extract_surl(input[p])
                     /\ stage'[p] = "list_alt" =>
                          /\ stage[p] \in {"shorturlinfo", "sharepage"}
                          /\ {"shareid", "uk"} \cap DOMAIN prm = {}
                     /\ stage'[p] = "list" =>
                          /\ "shareid" \in DOMAIN prm <=> sd.shareid
                          /\ "uk" \in DOMAIN prm <=> sd.uk
                          /\ "shareid" \in DOMAIN prm => prm.shareid = ShareId
                          /\ "uk" \in DOMAIN prm => prm.uk = Uk
                          /\ stage[p] = "list_alt" =>
                               ~(result[p].kind = "ok" /\ result[p].body.files.present)]_vars

\* stage 1 provided shareid and no uk: after the first /share/list, sent
\* without shareid, the standard one holds shareid and no uk
C30_Witness ==
  /\ stage[1] = "list"
  /\ share[1].shareid
  /\ ~share[1].uk
  /\ Len(log[1]) >= 2
  /\ log[1][Len(log[1]) - 1].ep = "list_alt"
  /\ "shareid" \notin DOMAIN log[1][Len(log[1]) - 1].params
  /\ "shareid" \in DOMAIN log[1][Len(log[1])].params
  /\ "uk" \notin DOMAIN log[1][Len(log[1])].params


\* C31 (as the specification states it): every request sent on behalf of
\* an installed session state (API get and post, fetch_page, the HEAD probe
\* of a dlink) carries as User-Agent the user_agent chosen when that state
\* was created, the same for all verbs.
C31_UserAgentOfInstalledState ==
  \A v \in Verbs :
    headers.sent[v] # EmptyHeaders => headers.sent[v].ua = headers.installed


\* C32: the mirror cursor is always an index of BASE_DOMAINS, and the
\* rotations of concurrently running calls are applied one at a time: a step
\* moves the cursor by one position (modulo the number of mirrors) or not at
\* all; it moves it exactly when the request of one task ends with the
\* captcha errno or with aiohttp.ClientError, and no other task's request
\* ends in that step.
C32_RotationsOneAtATime ==
  [][/\ domain_idx \in 0..(Len(BASE_DOMAINS) - 1)
     /\ domain_idx' \in 0..(Len(BASE_DOMAINS) - 1)
     /\ domain_idx' \in {domain_idx, (domain_idx + 1) % Len(BASE_DOMAINS)}
     /\ \A p \in Procs :
          /\ (/\ pc[p] \in InFlight
              /\ \/ result'[p].kind = "HostError" /\ result'[p].errno = CaptchaErrno
                 \/ ClientErrorResponse(p))
             => domain_idx' = (domain_idx + 1) % Len(BASE_DOMAINS)
     /\ domain_idx' # domain_idx
        => \E p \in Procs :
             /\ pc[p] \in InFlight
             /\ pc'[p] \notin InFlight
             /\ result'[p].kind \in {"HostError", "TransportError", "RetryError"}
             /\ \A q \in Procs \ {p} : pc'[q] = pc[q] /\ result'[q] = result[q]]_vars

\* C32 witness: the calls of both tasks ended with the captcha errno, each
\* rotated, and the cursor is two mirrors on from where it started
C32_Witness ==
  /\ domain_idx = 2
  /\ \A p \in Procs :
       /\ pc[p] = "idle"
       /\ result[p].kind = "HostError"
       /\ result[p].errno = CaptchaErrno


\* C33 (as the specification states it): every /share/streaming and
\* /share/download request that is sent carries a Referer whose host is the
\* mirror the request is addressed to, the requests that tenacity sends
\* again after a rotation included.
C33_RefererHostIsRequestHost ==
  \A p \in Procs :
    (pc[p] \in InFlight /\ stage[p] \in {"streaming", "download"})
    => current_domain(refHost[p]) = current_domain(reqHost[p])


\* C34: when an API call of stage 1, of stage 2 or of a rung of stage 4
\* (/api/shorturlinfo, /share/list, /share/streaming, /share/download,
\* /api/filemetas, /share/videoPlay) ends with the error of the exhausted
\* transport retry, extract raises that error at once: no except clause
\* takes it for a failed stage or rung, and no further request is started.
\* The call ends that way only when its last allowed attempt failed.
C34_ExhaustedRetryEndsExtract ==
  [][\A p \in Procs :
       /\ (/\ pc[p] = "idle"
           /\ stage[p] \in {"shorturlinfo", "list_alt", "list", "streaming",
                             "download", "filemetas", "videoPlay"}
           /\ result[p].kind = "RetryError")
          => /\ stage'[p] = "none"
             /\ pc'[p] = "idle"
             /\ out'[p].kind = "error"
             /\ out'[p].error = result[p].kind
             /\ log'[p] = log[p]
             /\ attempt'[p] = 0
       /\ (pc[p] \in InFlight /\ result'[p].kind = "RetryError")
          => /\ attempt[p] = MaxAttempts
             /\ pc'[p] = "idle"]_vars

\* C34 witness: extract has raised after the third attempt of
\* /share/download failed, with /share/download as its last request
C34_Witness ==
  /\ stage[1] = "none"
  /\ out[1].kind = "error"
  /\ out[1].error = "RetryError"
  /\ log[1] # <<>>
  /\ log[1][Len(log[1])].ep = "download"


\* C35: when the selected file entry has a non-empty dlink, the ladder ends
\* at its first rung: the HEAD probe is the next and last request, whatever
\* its outcome extract returns a MediaInfo with a non-empty stream_url, and
\* no request to /share/streaming, /share/download, /api/filemetas or
\* /share/videoPlay is started.
C35_DlinkEndsLadderAtFirstRung ==
  [][\A p \in Procs :
       LET dlink == Get(file'[p], "dlink", NoUrl)
       IN  /\ (/\ stage'[p] \in {"streaming", "download", "filemetas", "videoPlay"}
               /\ Len(log'[p]) = Len(log[p]) + 1)
              => dlink = NoUrl
           /\ (file[p] = NoFile /\ file'[p] # NoFile /\ dlink # NoUrl)
              => /\ stage'[p] = "head"
                 /\ log'[p][Len(log'[p])].ep = "head"
           /\ (stage[p] = "head" /\ pc[p] = "idle" /\ stage'[p] # "head")
              => /\ stage'[p] = "none"
                 /\ out'[p].kind = "MediaInfo"
                 /\ out'[p].stream_url # NoUrl
                 /\ out'[p].dlink = file[p].dlink
                 /\ Len(log'[p]) = Len(log[p])
                 /\ log'[p][Len(log'[p])].ep = "head"]_vars

\* C35 witness: the probe of the entry's dlink did not end with status 200,
\* and extract returned a MediaInfo after the HEAD as its last request and
\* without any request of the later rungs
C35_Witness ==
  /\ stage[1] = "none"
  /\ out[1].kind = "MediaInfo"
  /\ out[1].dlink = VideoWithDlink.dlink
  /\ out[1].stream_url # NoUrl
  /\ result[1].body = [t |-> "head", ok200 |-> FALSE]
  /\ log[1][Len(log[1])].ep = "head"
  /\ \A i \in DOMAIN log[1] :
       log[1][i].ep \notin {"streaming", "download", "filemetas", "videoPlay"}


\* C36: a state whose landing-page GET failed counts as valid once it is
\* installed: as long as its expires has not passed, no step constructs
\* another SessionData or sends another landing-page GET, the state stays
\* the installed one, and its js_token and bdstoken stay absent.
C36_FailedLandingStaysUntilExpiry ==
  [][(/\ session_data # 0
      /\ sess[session_data].landing = "failed"
      /\ now <= sess[session_data].expires)
     => /\ session_data' = session_data
        /\ nsess' = nsess
        /\ \A p \in Procs : pc'[p] \in Bootstrapping => pc[p] \in Bootstrapping
        /\ ~sess[session_data].js_token
        /\ ~sess[session_data].bdstoken
        /\ ~sess'[session_data].js_token
        /\ ~sess'[session_data].bdstoken
        /\ sess'[session_data].expires = sess[session_data].expires]_vars

\* C36 witness: at the last tick before it expires, the only state ever
\* constructed, one whose landing-page GET failed, is installed, and the
\* requests of both tasks, built from it, are in flight
C36_Witness ==
  /\ nsess = 1
  /\ session_data = 1
  /\ sess[1].landing = "failed"
  /\ now = sess[1].expires
  /\ now > sess[1].created
  /\ \A p \in Procs : pc[p] = "inflight" /\ snap[p] = 1


\* C37: apart from a bootstrap before it, fetch_page sends one GET per call.
\* The GET goes out from the call itself or from the bootstrap the call
\* waited for, never from a retry; when it ends, with a response or with an
\* exception, the mirror cursor, the installed state and the number of
\* states constructed are as before and the call is over; nothing sends the
\* page request again; an exception of the GET ends extract as it is.
C37_FetchPageSendsOneGet ==
  [][\A p \in Procs :
       /\ (pc'[p] = "page_inflight" /\ pc[p] # "page_inflight")
          => /\ pc[p] \in {"idle", "init_wait"} \cup Bootstrapping
             /\ stage'[p] = "sharepage"
             /\ pc[p] = "idle" => stage[p] = "shorturlinfo"
             /\ domain_idx' = domain_idx
       /\ (pc[p] \in {"page_inflight", "page_dead"} /\ pc'[p] # pc[p])
          => /\ pc'[p] = "idle"
             /\ result'[p].kind \in {"ok", "ClientError"}
             /\ domain_idx' = domain_idx
             /\ session_data' = session_data
             /\ nsess' = nsess
             /\ lock' = lock
             /\ attempt'[p] = attempt[p]
             /\ log'[p] = log[p]
       /\ (stage[p] = "sharepage" /\ pc[p] = "idle")
          => /\ stage'[p] # "sharepage"
             /\ pc'[p] \notin {"page_inflight", "page_dead"}
             /\ result[p].kind # "ok"
                => /\ stage'[p] = "none"
                   /\ out'[p].kind = "error"
                   /\ out'[p].error = "ClientError"
                   /\ log'[p] = log[p]]_vars

\* C37 witness: the GET of the share page raised, and extract ended with
\* that exception after one page request, on the mirror it started on and
\* with the one state constructed before the first request
C37_Witness ==
  /\ stage[1] = "none"
  /\ out[1].kind = "error"
  /\ out[1].error = "ClientError"
  /\ Len(log[1]) = 2
  /\ log[1][2].ep = "sharepage"
  /\ domain_idx = 0
  /\ nsess = 1


\* C38: a TeraboxAPIError raised by a /share/list call of stage 2 does not
\* leave extract: after the first (alternative) call raised it, the
\* standard /share/list call is the next request; after the standard call
\* raised it, extract ends with "No files found in share", not with the
\* Host's errno.
C38_ListHostErrorStaysInside ==
  [][\A p \in Procs :
       /\ (/\ stage[p] = "list_alt"
           /\ pc[p] = "idle"
           /\ result[p].kind = "HostError")
          => /\ stage'[p] = "list"
             /\ Len(log'[p]) = Len(log[p]) + 1
             /\ log'[p][Len(log'[p])].ep = "list"
             /\ out'[p].kind = "none"
       /\ (/\ stage[p] = "list"
           /\ pc[p] = "idle"
           /\ result[p].kind = "HostError")
          => /\ stage'[p] = "none"
             /\ out'[p].kind = "error"
             /\ out'[p].error = "No files found in share"
             /\ log'[p] = log[p]]_vars

\* C38 witness: both /share/list calls were made, the standard one ended
\* with errno 4, and extract raised "No files found in share"
C38_Witness ==
  /\ stage[1] = "none"
  /\ out[1].error = "No files found in share"
  /\ result[1].kind = "HostError"
  /\ result[1].errno = 4
  /\ Len(log[1]) >= 2
  /\ log[1][Len(log[1]) - 1].ep = "list_alt"
  /\ log[1][Len(log[1])].ep = "list"


\* the requests of the list lg that went to one of the endpoints eps
CallsTo(lg, eps) == Cardinality({i \in DOMAIN lg : lg[i].ep \in eps})

\* C39: when every request returns or fails in the end, every extract call
\* ends, with a MediaInfo or with an error, and until then it has made at
\* most 1 call of /api/shorturlinfo, 1 fetch of the share page, 2 calls of
\* /share/list, 1 HEAD of the dlink, 4 calls of /share/streaming, 1 of
\* /share/download, 1 of /api/filemetas and 1 of /share/videoPlay, each get
\* sent at most 3 times.
C39_ExtractEndsWithinBoundedCalls ==
  /\ [](\A p \in Procs :
          /\ CallsTo(log[p], {"shorturlinfo"}) <= 1
          /\ CallsTo(log[p], {"sharepage"}) <= 1
          /\ CallsTo(log[p], {"list_alt", "list"}) <= 2
          /\ CallsTo(log[p], {"head"}) <= 1
          /\ CallsTo(log[p], {"streaming"}) <= 4
          /\ CallsTo(log[p], {"download"}) <= 1
          /\ CallsTo(log[p], {"filemetas"}) <= 1
          /\ CallsTo(log[p], {"videoPlay"}) <= 1
          /\ attempt[p] <= 3)
  /\ \A p \in Procs :
       (stage[p] # "none")
         ~> (stage[p] = "none" /\ pc[p] = "idle" /\ out[p].kind \in {"MediaInfo", "error"})

\* C39 witness: extract ended with "Could not obtain streaming URL" after
\* the longest run of calls: /api/shorturlinfo, the share page, both
\* /share/list, four /share/streaming, /share/download, /api/filemetas and
\* /share/videoPlay
C39_Witness ==
  /\ stage[1] = "none"
  /\ out[1].error = "Could not obtain streaming URL"
  /\ Len(log[1]) = 11
  /\ CallsTo(log[1], {"list_alt", "list"}) = 2
  /\ CallsTo(log[1], {"streaming"}) = 4
  /\ CallsTo(log[1], {"sharepage"}) = 1

=============================================================================
